---------------------------- MODULE Spec2Model ----------------------------
(***************************************************************************)
(* Verification model of the tender document information-extraction        *)
(* pipeline: the Section Locator and Specification Extractor               *)
(* (backend/nlp/tech_spec_extractor.py) and the Tender ID Resolver         *)
(* (backend/pdf_engine/tender_id_detector.py).                             *)
(*                                                                         *)
(* Texts are TLA+ strings and are processed character by character, the    *)
(* way the Python string methods and regular expressions process them.     *)
(***************************************************************************)
EXTENDS Integers, Sequences, FiniteSets, Bags, TLC

VARIABLES
    text,            \* extract_specs: the argument `text`
    section,         \* extract_specs: tech_spec_text
    product_specs,   \* extract_specs: specs of all passes before the dedup
    raw_specs,       \* extract_specs: result['raw_specs']
    formatted_specs, \* extract_specs: result['formatted_specs']
    count,           \* extract_specs: result['count']
    pc,              \* position of the caller: "call" or "done"
    pdf_stem,        \* get_or_generate_tender_id: pdf_path.stem ("" when pdf_path is None)
    has_path,        \* get_or_generate_tender_id: whether pdf_path was given
    file_exists,     \* whether models/tender_counter.txt exists
    file_content,    \* the text stored in models/tender_counter.txt
    counter,         \* TenderIDDetector.counter of the live detector
    last_call,       \* the last call on the detector and its result
    generated,       \* the counters of the IDs generated so far, oldest first,
                     \* each with the number of the detector that generated it
    detector,        \* how many detectors were constructed before the live one
    inst,            \* the detectors of concurrent pipeline instances
    raw_text,        \* clean_text: the argument `text`, as a sequence of code points
    cleaned_texts,   \* the results of the successive applications of clean_text
    message,         \* is_tender_email: the arguments subject, body, sender, has_pdf
    verdict,         \* is_tender_email: the value returned
    standards,       \* extract_standards: the list returned, as a bag of its entries
    document,        \* process_pdf: what the components return for pdf_path
    tender_data,     \* process_pdf: the dictionary returned
    found_pdfs,      \* run: gmail_pdfs + portal_pdfs, as resolved paths
    all_pdfs,        \* run: the list of PDFs to process
    attempted,       \* run: the PDFs the loop has passed to process_pdf, in order
    extracted_dir,   \* the files of config.EXTRACTED_DIR: file name -> stored record
    processed_count, \* run: processed_count
    method_texts,    \* extract_text: what the extraction methods return, in fallback order
    max_retries,     \* _retry_with_backoff: the argument max_retries
    initial_delay,   \* _retry_with_backoff: the argument initial_delay
    attempt,         \* _retry_with_backoff: the loop variable attempt
    delay,           \* _retry_with_backoff: delay
    last_exception,  \* _retry_with_backoff: last_exception
    calls,           \* the outcomes of the invocations of func so far, oldest first
    waits,           \* the arguments of the calls of time.sleep so far, oldest first
    outcome          \* _retry_with_backoff: how the call ended

(***************************************************************************)
(* Python str primitives                                                   *)
(***************************************************************************)
UpperAlpha == "ABCDEFGHIJKLMNOPQRSTUVWXYZ"
LowerAlpha == "abcdefghijklmnopqrstuvwxyz"
DigitAlpha == "0123456789"

At(s, i) == SubSeq(s, i, i)

CharsOf(s) == {At(s, i) : i \in 1..Len(s)}

UpperSet == CharsOf(UpperAlpha)
LowerSet == CharsOf(LowerAlpha)
LetterSet == UpperSet \cup LowerSet
DigitSet == CharsOf(DigitAlpha)
\* str.isspace() characters of the ASCII range (also the regex class \s)
WsSet == {" ", "\t", "\n", "\r", "\f"}

LowerOf == [c \in UpperSet |-> At(LowerAlpha, CHOOSE i \in 1..26 : At(UpperAlpha, i) = c)]
UpperOf == [c \in LowerSet |-> At(UpperAlpha, CHOOSE i \in 1..26 : At(LowerAlpha, i) = c)]

RECURSIVE lower(_)
lower(s) ==
    IF Len(s) = 0 THEN ""
    ELSE IF Len(s) = 1 THEN (IF s \in UpperSet THEN LowerOf[s] ELSE s)
    ELSE LET h == Len(s) \div 2
         IN  lower(SubSeq(s, 1, h)) \o lower(SubSeq(s, h + 1, Len(s)))

RECURSIVE upper(_)
upper(s) ==
    IF Len(s) = 0 THEN ""
    ELSE IF Len(s) = 1 THEN (IF s \in LowerSet THEN UpperOf[s] ELSE s)
    ELSE LET h == Len(s) \div 2
         IN  upper(SubSeq(s, 1, h)) \o upper(SubSeq(s, h + 1, Len(s)))

\* str.isupper(): at least one cased character and no lower-case one
isupper(s) ==
    /\ \E i \in 1..Len(s) : At(s, i) \in UpperSet
    /\ \A i \in 1..Len(s) : At(s, i) \notin LowerSet

\* `k in s`
Contains(s, k) ==
    LET m == Len(k)
    IN  \E i \in 1..(Len(s) - m + 1) : SubSeq(s, i, i + m - 1) = k

startswith(s, k) == Len(k) <= Len(s) /\ SubSeq(s, 1, Len(k)) = k

\* s.find(k, i) with 1-based positions; 0 when absent
Find(s, k, i) ==
    LET P == {j \in i..(Len(s) - Len(k) + 1) : SubSeq(s, j, j + Len(k) - 1) = k}
    IN  IF P = {} THEN 0 ELSE CHOOSE j \in P : \A m \in P : j <= m

\* str.strip()
strip(s) ==
    LET N == {i \in 1..Len(s) : At(s, i) \notin WsSet}
    IN  IF N = {} THEN ""
        ELSE SubSeq(s, CHOOSE i \in N : \A m \in N : i <= m,
                       CHOOSE i \in N : \A m \in N : i >= m)

\* s.split(sep) for a one-character separator
RECURSIVE split(_, _)
split(s, sep) ==
    IF Len(s) = 0 THEN <<"">>
    ELSE IF Len(s) = 1 THEN (IF s = sep THEN <<"", "">> ELSE <<s>>)
    ELSE LET h == Len(s) \div 2
             \* the last part of the left half goes on in the right half
             glued(a, b) ==
                 SubSeq(a, 1, Len(a) - 1) \o <<a[Len(a)] \o b[1]>> \o Tail(b)
         IN  glued(split(SubSeq(s, 1, h), sep), split(SubSeq(s, h + 1, Len(s)), sep))

\* s.split(sep, 1)
split1(s, sep) ==
    LET p == Find(s, sep, 1)
    IN  IF p = 0 THEN <<s>>
        ELSE <<SubSeq(s, 1, p - 1), SubSeq(s, p + 1, Len(s))>>

\* s.split(): the maximal runs of non-whitespace characters
RECURSIVE wsplit(_)
wsplit(s) ==
    LET N == {i \in 1..Len(s) : At(s, i) \notin WsSet}
    IN  IF N = {} THEN <<>>
        ELSE LET b == CHOOSE i \in N : \A m \in N : i <= m
                 W == {i \in b..Len(s) : At(s, i) \in WsSet}
                 e == IF W = {} THEN Len(s) + 1 ELSE CHOOSE i \in W : \A m \in W : i <= m
             IN  <<SubSeq(s, b, e - 1)>> \o wsplit(SubSeq(s, e, Len(s)))

\* sep.join(parts)
RECURSIVE join(_, _)
join(sep, parts) ==
    IF Len(parts) = 0 THEN ""
    ELSE IF Len(parts) = 1 THEN parts[1]
    ELSE LET h == Len(parts) \div 2
         IN  join(sep, SubSeq(parts, 1, h)) \o sep
             \o join(sep, SubSeq(parts, h + 1, Len(parts)))

\* ' '.join(s.split())
normalize_ws(s) == join(" ", wsplit(s))

\* s * n
RECURSIVE Rep(_, _)
Rep(s, n) == IF n = 0 THEN "" ELSE s \o Rep(s, n - 1)

\* any(k in s for k in keywords)
AnyIn(keywords, s) == \E i \in 1..Len(keywords) : Contains(s, keywords[i])


(***************************************************************************)
(* Regular-expression primitives (re.search on character classes)          *)
(***************************************************************************)
\* the result of a search: a match object (ok, with the matched text) or None
NoMatch == [ok |-> FALSE, val |-> ""]
Matched(v) == [ok |-> TRUE, val |-> v]

SetMin(S) == CHOOSE x \in S : \A y \in S : x <= y
SetMax(S) == CHOOSE x \in S : \A y \in S : x >= y
Min2(a, b) == IF a <= b THEN a ELSE b
\* the least position of a set of positions, 0 when there is none
MinOrZero(S) == IF S = {} THEN 0 ELSE SetMin(S)

\* length of the maximal run of characters of class C that starts at i
RunLen(s, i, C) ==
    LET B == {j \in i..Len(s) : At(s, j) \notin C}
    IN  IF i > Len(s) THEN 0
        ELSE IF B = {} THEN Len(s) - i + 1 ELSE SetMin(B) - i

\* w1\s+w2\s+...\s+wn matched at position i: the position after the match,
\* 0 when there is no match at i
RECURSIVE MatchWordsAt(_, _, _)
MatchWordsAt(s, i, words) ==
    LET w == words[1]
        j == i + Len(w)
    IN  IF j - 1 > Len(s) \/ SubSeq(s, i, j - 1) # w THEN 0
        ELSE IF Len(words) = 1 THEN j
        ELSE LET n == RunLen(s, j, WsSet)
             IN  IF n = 0 THEN 0 ELSE MatchWordsAt(s, j + n, Tail(words))

\* re.search(w1\s+w2...): start of the leftmost match, 0 when none
SearchWords(s, words) == MinOrZero({i \in 1..Len(s) : MatchWordsAt(s, i, words) # 0})

(***************************************************************************)
(* Section Locator: TechSpecExtractor._extract_tech_spec_section_only      *)
(***************************************************************************)
\* the literal part of each header regex; the optional tail [s]?[:\s]*
\* matches the empty string and never decides whether a line matches
tech_spec_patterns == <<
    <<"technical", "specification">>,
    <<"tech", "spec">>,
    <<"specification">>,
    <<"technical", "requirement">>,
    <<"product", "specification">>,
    <<"item", "specification">> >>

section_end_keywords == <<
    "terms and conditions", "general terms", "payment terms", "delivery period",
    "delivery days", "delivery quantity", "warranty", "evaluation", "commercial",
    "bid end", "bid opening", "submission", "annexure", "appendix", "schedule",
    "boq", "bill of quantities", "categories where", "general terms and conditions",
    "conclusion", "disclaimer", "eligible micro", "benefits for", "grievance",
    "compliance with laws", "must comply", "option clause", "purchaser reserves",
    "additional terms", "compliance requirements", "restrictions on procurement" >>

product_spec_indicators == <<
    "category", "type of", "nominal", "conductor", "insulation", "sheath",
    "cable", "core", "area", "voltage", "grade", "material", "colour", "color",
    "construction", "standard", "conform", "comply", "specification name",
    "allowed values", "bid requirement" >>

\* the cap on collected lines
MaxSectionLines == 200

is_tech_spec_header(line_lower) ==
    \E p \in 1..Len(tech_spec_patterns) : SearchWords(line_lower, tech_spec_patterns[p]) # 0

\* the end test of the loop: an end keyword and no product-spec indicator
is_section_end(line_lower) ==
    /\ AnyIn(section_end_keywords, line_lower)
    /\ ~AnyIn(product_spec_indicators, line_lower)

\* an inclusion test that keeps header lines only
is_section_line_never(line, line_lower) == FALSE

\* the inclusion test of the loop
is_section_line(line, line_lower) ==
    LET has_product_spec == AnyIn(product_spec_indicators, line_lower)
        is_table_separator == strip(line) \in {"|", "-", "_"} \/ Len(strip(line)) < 3
        is_header_row == \/ Contains(line_lower, "specification name")
                         \/ Contains(line_lower, "allowed values")
                         \/ Contains(line_lower, "bid requirement")
        has_colon == Contains(line, ":")
        is_item_category == \/ Contains(line_lower, "item category")
                            \/ Contains(line_lower, "product category")
    IN  has_product_spec \/ is_table_separator \/ is_header_row \/ has_colon \/ is_item_category

\* a loop that skips an end line instead of stopping at it
RECURSIVE section_scan_skip(_, _, _, _)
section_scan_skip(lines, i, in_sec, out) ==
    IF i > Len(lines) THEN out
    ELSE LET line == lines[i]
             line_lower == strip(lower(line))
         IN  IF is_tech_spec_header(line_lower)
             THEN section_scan_skip(lines, i + 1, TRUE, Append(out, i))
             ELSE IF ~in_sec THEN section_scan_skip(lines, i + 1, FALSE, out)
             ELSE IF is_section_end(line_lower)
             THEN section_scan_skip(lines, i + 1, TRUE, out)
             ELSE LET out2 == IF is_section_line(line, line_lower)
                              THEN Append(out, i) ELSE out
                  IN  IF Len(out2) > MaxSectionLines THEN out2
                      ELSE section_scan_skip(lines, i + 1, TRUE, out2)

\* the body of the loop for line i; st holds in_tech_spec_section, the
\* indices of the lines collected so far (tech_spec_lines) and whether the
\* loop has been left by a break
section_step(lines, i, st) ==
    LET collected(out2) ==
            [st EXCEPT !.out = out2, !.stopped = Len(out2) > MaxSectionLines]
        examined(line, line_lower) ==
            IF is_tech_spec_header(line_lower)
            THEN [st EXCEPT !.in_sec = TRUE, !.out = Append(st.out, i)]
            ELSE IF ~st.in_sec THEN st
            ELSE IF is_section_end(line_lower) THEN [st EXCEPT !.stopped = TRUE]
            ELSE collected(IF is_section_line(line, line_lower)
                           THEN Append(st.out, i) ELSE st.out)
    IN  IF st.stopped THEN st ELSE examined(lines[i], strip(lower(lines[i])))

\* the loop over the lines lo..hi, in order
RECURSIVE section_loop(_, _, _, _)
section_loop(lines, lo, hi, st) ==
    IF lo > hi THEN st
    ELSE IF lo = hi THEN section_step(lines, lo, st)
    ELSE LET continued(half) ==
                 IF half.stopped THEN half
                 ELSE section_loop(lines, (lo + hi) \div 2 + 1, hi, half)
         IN  continued(section_loop(lines, lo, (lo + hi) \div 2, st))

\* the loop over the lines from line i on; `out` holds the indices of the
\* lines collected so far (tech_spec_lines), in_sec is in_tech_spec_section
section_scan(lines, i, in_sec, out) ==
    section_loop(lines, i, Len(lines),
                 [in_sec |-> in_sec, out |-> out, stopped |-> FALSE]).out

\* a scan that starts out inside the section
section_indices_started(t) == section_scan(split(t, "\n"), 1, TRUE, <<>>)

\* indices (into text.split('\n')) of the lines of the returned section
section_indices(t) == section_scan(split(t, "\n"), 1, FALSE, <<>>)

extract_tech_spec_section_only(t) ==
    LET lines == split(t, "\n")
        tech_spec_lines(idx) == [k \in 1..Len(idx) |-> lines[idx[k]]]
    IN  join("\n", tech_spec_lines(section_indices(t)))


(***************************************************************************)
(* Specification Extractor: item categories and the generic key-value pass *)
(***************************************************************************)
\* re.sub(r'\s+', ' ', s)
collapse_ws(s) ==
    IF Len(s) = 0 THEN ""
    ELSE IF wsplit(s) = <<>> THEN " "
    ELSE (IF At(s, 1) \in WsSet THEN " " ELSE "")
         \o normalize_ws(s)
         \o (IF At(s, Len(s)) \in WsSet THEN " " ELSE "")

\* the words of r'item\s+category[:\s]+([^\n]{10,500})' and of its siblings
\* (the Devanagari pattern matches no ASCII text and is the empty entry)
item_category_patterns == <<
    <<"item", "category">>,
    <<"product", "category">>,
    <<>>,
    <<"item", "description">> >>

MinCategoryLen == 10
MaxCategoryLen == 500

\* words [:\s]+ ([^\n]{10,500}) tried at position i of a line: group(1),
\* or the record with ok = FALSE.  The separator run is greedy and gives
\* characters back until ten characters are left for the group.
CategoryMatchAt(ll, i, words) ==
    LET group(e, n) ==
            LET c == IF Len(ll) - (e + n) + 1 >= MinCategoryLen THEN e + n
                     ELSE Len(ll) - MinCategoryLen + 1
            IN  IF e = 0 \/ n = 0 \/ Len(ll) - e < MinCategoryLen THEN NoMatch
                ELSE Matched(SubSeq(ll, c, Min2(Len(ll), c + MaxCategoryLen - 1)))
        after_words(e) == group(e, RunLen(ll, e, WsSet \cup {":"}))
    IN  after_words(MatchWordsAt(ll, i, words))

CategorySearch(ll, words) ==
    LET match_at(p) == IF p = 0 THEN NoMatch ELSE CategoryMatchAt(ll, p, words)
    IN  IF words = <<>> THEN NoMatch
        ELSE match_at(MinOrZero({i \in 1..Len(ll) : CategoryMatchAt(ll, i, words).ok}))

\* the loop over item_category_patterns from pattern p on: the first match
RECURSIVE first_category_match(_, _)
first_category_match(line_lower, p) ==
    IF p > Len(item_category_patterns) THEN NoMatch
    ELSE LET first_of(m) == IF m.ok THEN m ELSE first_category_match(line_lower, p + 1)
         IN  first_of(CategorySearch(line_lower, item_category_patterns[p]))

\* the body of the loop over the lines: the records one line contributes
item_category_of_line(line) ==
    LET orig_line == strip(line)
        parts == split1(orig_line, ":")
        record(category_text) ==
            IF ~(Len(category_text) > 10 /\ Len(category_text) < 500) THEN <<>>
            ELSE IF Contains(orig_line, ":")
            THEN <<strip(parts[1]) \o ": " \o strip(parts[2])>>
            ELSE <<"Item Category: " \o category_text>>
        record_of(match) ==
            IF ~match.ok THEN <<>> ELSE record(collapse_ws(strip(match.val)))
    IN  record_of(first_category_match(lower(line), 1))

\* the loop over the lines from line i on
RECURSIVE item_categories_from(_, _)
item_categories_from(lines, i) ==
    IF i > Len(lines) THEN <<>>
    ELSE item_category_of_line(lines[i]) \o item_categories_from(lines, i + 1)

extract_item_categories(t) == item_categories_from(split(t, "\n"), 1)

product_spec_keywords == <<
    "category", "type", "nominal", "conductor", "insulation", "sheath",
    "cable", "core", "area", "voltage", "grade", "material", "colour", "color",
    "construction", "standard", "conform", "comply", "specification name",
    "allowed values", "bid requirement", "classification", "armouring", "armoring",
    "outer sheath", "inner sheath", "marking", "packing", "certification",
    "conformity", "suitable for", "wound on", "length", "drum", "item category",
    "product category", "polymer", "insulator", "disc", "pin", "acsr", "conductor",
    "lattice tower", "guard wire", "stay wire", "distribution panel", "pvc cable",
    "casing capping", "transmission line", "switchgear", "busbar", "mcb", "mccb",
    "as per", "is:", "iec", "ieee", "conforming to", "per is" >>

exclude_keywords == <<
    "delivery", "period", "days", "weeks", "months", "validity",
    "bid end", "bid opening", "submission", "deadline",
    "terms and conditions", "compliance", "laws", "grievance",
    "exemption", "preference", "evaluation", "payment", "invoice",
    "consignee", "inspection", "warranty", "guarantee", "option clause",
    "purchaser reserves", "must be raised", "must comply", "eligible micro" >>

MaxValueLen == 150
MaxSpecLen == 200

\* the body of the key-value loop of _extract_product_specifications
key_value_of_line(lines, i) ==
    LET pair(key, value) ==
            IF /\ AnyIn(product_spec_keywords, lower(key))
               /\ Len(value) > 0 /\ Len(value) < MaxValueLen
            THEN <<key \o ": " \o value>>
            ELSE <<>>
        pair_of(parts) == pair(strip(parts[1]), strip(parts[2]))
        with_next(line, next_line) ==
            IF /\ Len(next_line) > 0 /\ Len(next_line) < MaxValueLen
               /\ ~AnyIn(exclude_keywords, lower(next_line))
            THEN <<line \o ": " \o next_line>>
            ELSE <<>>
        record(line, line_lower) ==
            IF Len(line) = 0 \/ Len(line) < 5 THEN <<>>
            ELSE IF AnyIn(exclude_keywords, line_lower) THEN <<>>
            ELSE IF isupper(line) /\ Len(line) < 50 THEN <<>>
            ELSE IF line \in {"|", "-", "_", "---", "==="} \/ Len(line) < 3 THEN <<>>
            ELSE IF Contains(line, ":") THEN pair_of(split1(line, ":"))
            ELSE IF AnyIn(product_spec_keywords, line_lower)
            THEN IF i + 1 <= Len(lines) THEN with_next(line, strip(lines[i + 1])) ELSE <<>>
            ELSE <<>>
        record_of(line) == record(line, lower(line))
    IN  record_of(strip(lines[i]))

\* the loop over the lines from line i on
RECURSIVE key_values_from(_, _)
key_values_from(lines, i) ==
    IF i > Len(lines) THEN <<>>
    ELSE key_value_of_line(lines, i) \o key_values_from(lines, i + 1)

extract_key_value_specs(t) == key_values_from(split(t, "\n"), 1)

\* a de-duplication that compares the records without lower-casing them
RECURSIVE unique_specs_cased(_, _, _, _)
unique_specs_cased(specs, i, seen, acc) ==
    IF i > Len(specs) THEN acc
    ELSE LET step(spec_clean, spec_key) ==
                 IF Len(spec_key) > 0 /\ spec_key \notin seen /\ Len(spec_clean) < MaxSpecLen
                 THEN unique_specs_cased(specs, i + 1, seen \cup {spec_key},
                                         Append(acc, spec_clean))
                 ELSE unique_specs_cased(specs, i + 1, seen, acc)
             step_of(spec_clean) == step(spec_clean, strip(spec_clean))
         IN  step_of(normalize_ws(specs[i]))

\* the closing de-duplication loop of _extract_product_specifications
RECURSIVE unique_specs(_, _, _, _)
unique_specs(specs, i, seen, acc) ==
    IF i > Len(specs) THEN acc
    ELSE LET step(spec_clean, spec_lower) ==
                 IF Len(spec_lower) > 0 /\ spec_lower \notin seen /\ Len(spec_clean) < MaxSpecLen
                 THEN unique_specs(specs, i + 1, seen \cup {spec_lower},
                                   Append(acc, spec_clean))
                 ELSE unique_specs(specs, i + 1, seen, acc)
             step_of(spec_clean) == step(spec_clean, strip(lower(spec_clean)))
         IN  step_of(normalize_ws(specs[i]))

(***************************************************************************)
(* Specification Extractor: labeled-table strategy                         *)
(* TechSpecExtractor._extract_table_format_specs                           *)
(***************************************************************************)
\* length of the maximal run of characters outside class C that starts at i
RunLenNot(s, i, C) ==
    LET B == {j \in i..Len(s) : At(s, j) \in C}
    IN  IF i > Len(s) THEN 0
        ELSE IF B = {} THEN Len(s) - i + 1 ELSE SetMin(B) - i

\* the regex class \w and the assertion \b before position i
WordSet == LetterSet \cup DigitSet \cup {"_"}
IsWordAt(s, i) == i >= 1 /\ i <= Len(s) /\ At(s, i) \in WordSet
BoundaryAt(s, i) == IsWordAt(s, i - 1) # IsWordAt(s, i)

table_header_phrases == <<"specification name", "bid requirement", "allowed values">>

table_start_categories == {
    "STANDARDS", "GENERIC", "CONSTRUCTION", "ARMOURING", "OUTER SHEATH",
    "MARKING ON CABLE", "PACKING AND MARKING", "CERTIFICATION"}

category_headers == <<
    "STANDARDS", "GENERIC", "CONSTRUCTION", "ARMOURING", "ARMORING",
    "OUTER SHEATH", "INNER SHEATH", "MARKING ON CABLE", "MARKING",
    "PACKING AND MARKING", "PACKING", "CERTIFICATION" >>

\* the words of each field regex; r'construction\s+of\s+the?\s+conductor'
\* is the two entries with "the" and with "th"
spec_field_patterns == <<
    <<"conformity", "of", "the", "specification">>,
    <<"cables", "suitable", "for", "use", "in">>,
    <<"classification", "of", "cables">>,
    <<"nominal", "area", "of", "conductor">>,
    <<"number", "of", "core">>,
    <<"material", "of", "conductor">>,
    <<"construction", "of", "the", "conductor">>,
    <<"construction", "of", "th", "conductor">>,
    <<"type", "of", "inner", "sheath">>,
    <<"type", "of", "cable">>,
    <<"material", "of", "armouring">>,
    <<"type", "of", "armouring">>,
    <<"type", "of", "outer", "sheath">>,
    <<"type", "of", "sequential", "marking">>,
    <<"cable", "wound", "on">>,
    <<"standard", "length", "of", "cable">>,
    <<"availability", "of", "optional", "test", "reports">>,
    <<"total", "quantity">>,
    <<"quantity", "required">>,
    <<"qty">>,
    <<"order", "quantity">>,
    <<"total", "quantity", "as", "100">> >>

matches_spec_field(line_lower) ==
    \E p \in 1..Len(spec_field_patterns) : SearchWords(line_lower, spec_field_patterns[p]) # 0

\* re.search(r'([A-Z][^A-Z]*(?:\s+[A-Z][^A-Z]*)*)', s, re.IGNORECASE): under
\* IGNORECASE [^A-Z] excludes every letter, so the match is the first letter
\* and the non-letters after it (the repeated group always matches zero times)
LetterRunSearch(s) ==
    LET P == {i \in 1..Len(s) : At(s, i) \in LetterSet}
    IN  IF P = {} THEN NoMatch
        ELSE LET p == SetMin(P)
             IN  Matched(SubSeq(s, p, p + RunLenNot(s, p + 1, LetterSet)))

\* r'(?:as\s+per|per)\s+[A-Z][^A-Z]*(?:\s+[A-Z][^A-Z]*)*' at position i:
\* the position after the match, 0 when there is none
AsPerEndAt(s, sl, i) ==
    LET follows(e, n) == e # 0 /\ n >= 1 /\ e + n <= Len(s) /\ At(s, e + n) \in LetterSet
        Follows(e) == follows(e, RunLen(s, e, WsSet))
        run_end(l) == l + 1 + RunLenNot(s, l + 1, LetterSet)
        end_from(e) == IF e = 0 THEN 0 ELSE run_end(e + RunLen(s, e, WsSet))
        end_of(e1, e2) == end_from(IF Follows(e1) THEN e1 ELSE IF Follows(e2) THEN e2 ELSE 0)
    IN  end_of(MatchWordsAt(sl, i, <<"as", "per">>), MatchWordsAt(sl, i, <<"per">>))

AsPerSearch(s) ==
    LET sl == lower(s)
        match_at(p) == IF p = 0 THEN NoMatch
                       ELSE Matched(SubSeq(s, p, AsPerEndAt(s, sl, p) - 1))
    IN  match_at(MinOrZero({i \in 1..Len(s) : AsPerEndAt(s, sl, i) # 0}))

\* r'\b(?:Yes|No|Not\s+applicable)\b' at position i
YesNoEndAt(s, sl, i, alts) ==
    LET bounded(e) == e # 0 /\ BoundaryAt(s, e)
        end_of(k) == IF k = 0 THEN 0 ELSE MatchWordsAt(sl, i, alts[k])
    IN  IF ~BoundaryAt(s, i) THEN 0
        ELSE end_of(MinOrZero({k \in 1..Len(alts) : bounded(MatchWordsAt(sl, i, alts[k]))}))

YesNoSearch(s, alts) ==
    LET sl == lower(s)
        match_at(p) == IF p = 0 THEN NoMatch
                       ELSE Matched(SubSeq(s, p, YesNoEndAt(s, sl, p, alts) - 1))
    IN  match_at(MinOrZero({i \in 1..Len(s) : YesNoEndAt(s, sl, i, alts) # 0}))

YesNoNotApplicable == << <<"yes">>, <<"no">>, <<"not", "applicable">> >>
YesNo == << <<"yes">>, <<"no">> >>

\* r'\b\d+\b'
NumberSearch(s) ==
    LET match_at(p) == IF p = 0 THEN NoMatch
                       ELSE Matched(SubSeq(s, p, p + RunLen(s, p, DigitSet) - 1))
    IN  match_at(MinOrZero({i \in 1..Len(s) :
                               /\ At(s, i) \in DigitSet
                               /\ BoundaryAt(s, i)
                               /\ BoundaryAt(s, i + RunLen(s, i, DigitSet))}))

\* ws-separated words of at least `least` letters each, from position i on:
\* the position after the last word that (?:\s+[A-Z][a-z]+)* consumes
RECURSIVE MoreWordsEnd(_, _, _)
MoreWordsEnd(s, e, least) ==
    LET n == RunLen(s, e, WsSet)
        m == RunLen(s, e + n, LetterSet)
    IN  IF n >= 1 /\ m >= least THEN MoreWordsEnd(s, e + n + m, least) ELSE e

\* r'[A-Z][a-z]+(?:\s+[A-Z][a-z]+)*' under IGNORECASE
CapWordsSearch(s) ==
    LET match_at(p) ==
            IF p = 0 THEN NoMatch
            ELSE Matched(SubSeq(s, p, MoreWordsEnd(s, p + RunLen(s, p, LetterSet), 2) - 1))
    IN  match_at(MinOrZero({i \in 1..Len(s) : RunLen(s, i, LetterSet) >= 2}))

\* the loop over value_patterns: the value of the first pattern whose
\* stripped match is longer than 5, else that of the last pattern that matched
same_line_value(remaining_line) ==
    LET value_of(m) ==
            LET Long == {k \in 1..4 : m[k].ok /\ Len(strip(m[k].val)) > 5}
                Some == {k \in 1..4 : m[k].ok}
            IN  IF Long # {} THEN Matched(strip(m[SetMin(Long)].val))
                ELSE IF Some # {} THEN Matched(strip(m[SetMax(Some)].val))
                ELSE NoMatch
    IN  value_of(<< AsPerSearch(remaining_line),
                    YesNoSearch(remaining_line, YesNoNotApplicable),
                    NumberSearch(remaining_line),
                    CapWordsSearch(remaining_line) >>)

\* the search of the next one or two lines for a value line: the index of
\* the line taken, 0 when none
next_line_value(lines, i) ==
    LET is_value(next_line) ==
            /\ Len(next_line) > 0 /\ Len(next_line) < 200
            /\ ~AnyIn(category_headers, upper(next_line))
            /\ ~matches_spec_field(lower(next_line))
    IN  MinOrZero({j \in (i + 1)..(Min2(i + 3, Len(lines) + 1) - 1) : is_value(strip(lines[j]))})

\* the characters re.sub(r'[^\x00-\x7F]+', '', s) keeps
AsciiSet == LetterSet \cup DigitSet \cup WsSet
            \cup {"!", "#", "$", "%", "&", "'", "(", ")", "*", "+", ",", "-", ".",
                  "/", ":", ";", "<", "=", ">", "?", "@", "[", "]", "^", "_", "{",
                  "|", "}", "~"}

RECURSIVE strip_non_ascii(_)
strip_non_ascii(s) ==
    IF Len(s) = 0 THEN ""
    ELSE IF Len(s) = 1 THEN (IF s \in AsciiSet THEN s ELSE "")
    ELSE LET h == Len(s) \div 2
         IN  strip_non_ascii(SubSeq(s, 1, h)) \o strip_non_ascii(SubSeq(s, h + 1, Len(s)))

\* the while loop from line i on
RECURSIVE table_scan(_, _)
table_scan(lines, i) ==
    IF i > Len(lines) THEN <<>>
    ELSE LET \* the row is appended when name and value pass the tests;
             \* the scan goes on after line i2
             append(spec_name_clean, value, value_clean, i2) ==
                 IF /\ value.ok /\ Len(value.val) > 2 /\ Len(value.val) < 200
                    /\ Len(spec_name_clean) > 0 /\ Len(value_clean) > 0
                 THEN <<spec_name_clean \o ": " \o value_clean>> \o table_scan(lines, i2 + 1)
                 ELSE table_scan(lines, i2 + 1)
             cleaned(spec_name_clean, value, i2) ==
                 append(spec_name_clean, value, strip(value.val), i2)
             clean_name(spec_name, ascii_name) ==
                 IF ascii_name = "" THEN strip(spec_name) ELSE ascii_name
             \* j is the next line taken for the value, 0 when none is
             valued(spec_name, same, j) ==
                 cleaned(clean_name(spec_name, strip(strip_non_ascii(spec_name))),
                         IF j # 0 THEN Matched(strip(lines[j])) ELSE same,
                         IF j # 0 THEN j ELSE i)
             with_same(spec_name, same) ==
                 valued(spec_name, same,
                        IF ~same.ok \/ Len(same.val) < 3 THEN next_line_value(lines, i) ELSE 0)
             named(line, spec_name) ==
                 with_same(spec_name,
                           same_line_value(IF Contains(line, spec_name)
                                           THEN strip(SubSeq(line, Len(spec_name) + 1, Len(line)))
                                           ELSE line))
             with_name(line, name_match) ==
                 named(line, IF name_match.ok THEN strip(name_match.val)
                             ELSE strip(SubSeq(line, 1, Min2(100, Len(line)))))
             row(line, line_upper, line_lower) ==
                 IF Len(line) = 0 THEN table_scan(lines, i + 1)
                 ELSE IF AnyIn(category_headers, line_upper) /\ Len(line) < 50
                 THEN table_scan(lines, i + 1)
                 ELSE IF AnyIn(table_header_phrases, line_lower) THEN table_scan(lines, i + 1)
                 ELSE IF ~matches_spec_field(line_lower) THEN table_scan(lines, i + 1)
                 ELSE with_name(line, LetterRunSearch(line))
             row_of(line) == row(line, upper(line), lower(line))
         IN  row_of(strip(lines[i]))

extract_table_format_specs(t) ==
    LET lines == split(t, "\n")
        H == {i \in 1..Len(lines) : AnyIn(table_header_phrases, lower(lines[i]))}
        C == {i \in 1..Len(lines) : upper(strip(lines[i])) \in table_start_categories}
        scan_from(start_idx) == IF start_idx = 0 THEN <<>> ELSE table_scan(lines, start_idx)
    IN  scan_from(IF H # {} THEN SetMin(H) ELSE MinOrZero(C))


(***************************************************************************)
(* Specification Extractor: concatenated-table strategy                    *)
(* TechSpecExtractor._extract_concatenated_table_specs                     *)
(***************************************************************************)
concat_anchor_phrases == <<
    <<"specification", "name">>, <<"bid", "requirement">>, <<"allowed", "values">> >>

concat_anchor_categories == <<"standards", "generic", "construction">>

\* known_specs in its dictionary order: the field name and the shape of its
\* value regex
\*   as_per_is   r'as\s+per\s+IS[:\s]*\d+[^\s]*'
\*   yes_no      r'\b(?:Yes|No)\b'
\*   digits      r'\d+'
\*   word        r'[A-Z][a-z]+'
\*   words       r'[A-Z][a-z]+(?:\s+[a-z]+)+'
\*   token       r'[A-Z0-9-]+'
\*   letter_run  r'[A-Z][^A-Z]*(?:\s+[A-Z][^A-Z]*)*'
\*   non_letters r'[^A-Z]+(?:\s+[^A-Z]+)*(?:,\s*[^A-Z]+)*'
\*   literal     the default of "Total Quantity"
known_specs == <<
    <<"Conformity of the specification for XLPE cable", "as_per_is">>,
    <<"Cables suitable for use in mines", "yes_no">>,
    <<"Cables suitable for use in low temperature applications", "yes_no">>,
    <<"Classification of cables for improved fire performace category", "digits">>,
    <<"Nominal Area of Conductor (in Sq mm)", "digits">>,
    <<"Number of core (in Nos)", "digits">>,
    <<"Material of conductor", "word">>,
    <<"Construction of the conductor", "words">>,
    <<"Type of inner sheath", "word">>,
    <<"Type of cable", "words">>,
    <<"Material of armouring", "words">>,
    <<"Type of armouring", "words">>,
    <<"Type of outer sheath", "token">>,
    <<"Type of sequential marking on cable", "words">>,
    <<"Cable wound on", "letter_run">>,
    <<"Standard length of cable on drum (in m)", "digits">>,
    <<"Total Quantity", "literal">>,
    <<"Availability of Optional Test Reports", "non_letters">> >>

TotalQuantityDefault == "1500"

\* re.IGNORECASE on the escaped field names
known_spec_names_lower == [k \in 1..Len(known_specs) |-> lower(known_specs[k][1])]

TokenSet == LetterSet \cup DigitSet \cup {"-"}

\* a value regex matched at position j: the position after the match, 0
\* when it does not match there (all under re.IGNORECASE)
ValueEndAt(kind, s, sl, j) ==
    IF j > Len(s) THEN 0
    ELSE IF kind = "as_per_is" THEN
        LET number(e, d) == IF e = 0 \/ d = 0 THEN 0 ELSE e + d + RunLenNot(s, e + d, WsSet)
            separated(e, k) == number(IF e = 0 THEN 0 ELSE e + k, RunLen(s, e + k, DigitSet))
            after_words(e) == separated(e, RunLen(s, e, WsSet \cup {":"}))
        IN  after_words(MatchWordsAt(sl, j, <<"as", "per", "is">>))
    ELSE IF kind = "yes_no" THEN YesNoEndAt(s, sl, j, YesNo)
    ELSE IF kind = "digits" THEN
        (IF RunLen(s, j, DigitSet) = 0 THEN 0 ELSE j + RunLen(s, j, DigitSet))
    ELSE IF kind = "word" THEN
        (IF RunLen(s, j, LetterSet) < 2 THEN 0 ELSE j + RunLen(s, j, LetterSet))
    ELSE IF kind = "words" THEN
        LET more(r, e) == IF r < 2 \/ e = j + r THEN 0 ELSE e
            first_word(r) == more(r, MoreWordsEnd(s, j + r, 1))
        IN  first_word(RunLen(s, j, LetterSet))
    ELSE IF kind = "token" THEN
        (IF RunLen(s, j, TokenSet) = 0 THEN 0 ELSE j + RunLen(s, j, TokenSet))
    ELSE IF kind = "letter_run" THEN
        (IF At(s, j) \notin LetterSet THEN 0 ELSE j + 1 + RunLenNot(s, j + 1, LetterSet))
    ELSE IF kind = "non_letters" THEN
        (IF At(s, j) \in LetterSet THEN 0 ELSE j + RunLenNot(s, j, LetterSet))
    ELSE 0

\* re.search(value_pattern, s, re.IGNORECASE)
ValueSearch(kind, s) ==
    LET sl == lower(s)
        match_at(p) == IF p = 0 THEN NoMatch
                       ELSE Matched(SubSeq(s, p, ValueEndAt(kind, s, sl, p) - 1))
    IN  match_at(MinOrZero({i \in 1..Len(s) : ValueEndAt(kind, s, sl, i) # 0}))

\* re.escape(spec_name) + r'\s+' + value_pattern matched at position i: the
\* position after the match, 0 when there is none.  \s+ is greedy; it gives
\* its last character back only to a value regex that can start with
\* whitespace, which is the non_letters shape.
KnownSpecEndAt(k, s, sl, i) ==
    LET kind == known_specs[k][2]
        value_end(e, n, v) ==
            IF n = 0 THEN 0
            ELSE IF v # 0 THEN v
            ELSE IF kind = "non_letters" /\ n >= 2 THEN e + n
            ELSE 0
        spaced(e, n) == value_end(e, n, ValueEndAt(kind, s, sl, e + n))
        named(name, e) ==
            IF e - 1 > Len(s) \/ SubSeq(sl, i, e - 1) # name THEN 0
            ELSE spaced(e, RunLen(s, e, WsSet))
        name_at(name) == named(name, i + Len(name))
    IN  name_at(known_spec_names_lower[k])

\* the body of the loop over known_specs: the record of one entry
known_spec_record(k, table_text, sl) ==
    LET spec_name == known_specs[k][1]
        kind == known_specs[k][2]
        record(value_match) ==
            IF ~value_match.ok THEN <<>>
            ELSE <<spec_name \o ": " \o strip(value_match.val)>>
        \* p is the start of the match of the entry, 0 when it has none
        record_at(p) ==
            IF kind = "literal" \/ p = 0 THEN <<>>
            ELSE record(ValueSearch(kind, SubSeq(table_text, p,
                                                 KnownSpecEndAt(k, table_text, sl, p) - 1)))
    IN  record_at(MinOrZero({i \in 1..Len(table_text) :
                                 KnownSpecEndAt(k, table_text, sl, i) # 0}))

InSeq(x, q) == \E k \in 1..Len(q) : q[k] = x

RECURSIVE known_specs_scan(_, _, _, _)
known_specs_scan(table_text, sl, k, specs) ==
    IF k > Len(known_specs) THEN specs
    ELSE LET step(r) ==
                 IF r # <<>> /\ ~InSeq(r[1], specs)
                 THEN known_specs_scan(table_text, sl, k + 1, specs \o r)
                 ELSE known_specs_scan(table_text, sl, k + 1, specs)
         IN  step(known_spec_record(k, table_text, sl))

\* start of the leftmost anchor phrase that is followed, anywhere later in
\* the text (re.DOTALL), by one of the category words; 0 when there is none
concat_table_start(t) ==
    LET AnchorEnd(tl, i) == MinOrZero({MatchWordsAt(tl, i, concat_anchor_phrases[a]) :
                                           a \in 1..Len(concat_anchor_phrases)} \ {0})
        followed(tl, e) ==
            /\ e # 0
            /\ \E c \in 1..Len(concat_anchor_categories) :
                   Find(tl, concat_anchor_categories[c], e) # 0
        start_in(tl) == MinOrZero({i \in 1..Len(t) : followed(tl, AnchorEnd(tl, i))})
    IN  start_in(lower(t))

\* the strategy without its closing step
extract_concatenated_table_specs_bare(t) ==
    LET specs_from(start) ==
            IF start = 0 THEN <<>>
            ELSE known_specs_scan(SubSeq(t, start, Len(t)),
                                  lower(SubSeq(t, start, Len(t))), 1, <<>>)
    IN  specs_from(concat_table_start(t))

extract_concatenated_table_specs(t) ==
    LET completed(specs) ==
            IF \E k \in 1..Len(specs) : startswith(specs[k], "Total Quantity:")
            THEN specs
            ELSE Append(specs, "Total Quantity: " \o TotalQuantityDefault)
        scanned(table_text) ==
            completed(known_specs_scan(table_text, lower(table_text), 1, <<>>))
        specs_from(start) == IF start = 0 THEN <<>> ELSE scanned(SubSeq(t, start, Len(t)))
    IN  specs_from(concat_table_start(t))


(***************************************************************************)
(* Specification Extractor: the four passes, de-duplication, formatting    *)
(***************************************************************************)
\* the passes without the generic key-value pass
table_pass_specs(t) ==
    extract_table_format_specs(t)
    \o extract_concatenated_table_specs(t)
    \o extract_item_categories(t)

\* the records of the four passes in the order the code concatenates them
all_pass_specs(t) ==
    extract_table_format_specs(t)
    \o extract_concatenated_table_specs(t)
    \o extract_item_categories(t)
    \o extract_key_value_specs(t)

extract_product_specifications(t) == unique_specs(all_pass_specs(t), 1, {}, <<>>)

\* _format_specs_concise; the bullet it removes is not an ASCII character
\* and does not occur in the texts of this model
RECURSIVE formatted_lines(_, _)
formatted_lines(specs, i) ==
    IF i > Len(specs) THEN <<>>
    ELSE LET kept(spec) == IF Len(spec) > 0 /\ Len(spec) < MaxSpecLen THEN <<spec>> ELSE <<>>
         IN  kept(strip(normalize_ws(specs[i]))) \o formatted_lines(specs, i + 1)

format_specs_concise(specs) ==
    IF Len(specs) = 0 THEN "" ELSE join("\n", formatted_lines(specs, 1))

EmptyResult == [raw_specs |-> <<>>, formatted_specs |-> "", count |-> 0]

extract_specs_result(t) ==
    LET result(specs) ==
            IF specs = <<>> THEN EmptyResult
            ELSE [raw_specs |-> specs,
                  formatted_specs |-> format_specs_concise(specs),
                  count |-> Len(specs)]
        result_of(tech_spec_text) ==
            IF tech_spec_text = "" THEN EmptyResult
            ELSE result(extract_product_specifications(tech_spec_text))
    IN  result_of(extract_tech_spec_section_only(t))

(***************************************************************************)
(* Tender ID Resolver: TenderIDDetector.extract_tender_id                  *)
(***************************************************************************)
\* [:\s\-] and, under re.IGNORECASE, [A-Z0-9\-/]
SepSet == WsSet \cup {":", "-"}
IdSet == LetterSet \cup DigitSet \cup {"-", "/"}

\* seps+ (group{least,most}) tried at position e, both greedy: the separator
\* run gives characters back until the group finds `least` characters
\* (most = 0: no upper limit)
SepCaptureAt(s, e, seps, least, most) ==
    LET group(c, r) ==
            Matched(SubSeq(s, c, c + (IF most = 0 THEN r ELSE Min2(r, most)) - 1))
        group_at(c) == group(c, RunLen(s, c, IdSet))
        \* K holds the lengths of separator run that leave a group
        capture(K) == IF e = 0 \/ K = {} THEN NoMatch ELSE group_at(e + SetMax(K))
    IN  capture({k \in 1..RunLen(s, e, seps) : RunLen(s, e + k, IdSet) >= least})

\* (alt1|alt2|...) seps+ (group) at position i; each alt is a list of words
\* separated by \s+
LabelMatchAt(s, sl, i, pat) ==
    LET alt_match(a) ==
            SepCaptureAt(s, MatchWordsAt(sl, i, pat.alts[a]), pat.seps, pat.least, pat.most)
        first_alt(a) == IF a = 0 THEN NoMatch ELSE alt_match(a)
    IN  first_alt(MinOrZero({a \in 1..Len(pat.alts) : alt_match(a).ok}))

\* the tail [d1] \d{4} [d1] \d{3,6} of a compact ID whose prefix ends before
\* position e, for a match that starts at position i
CompactTailAt(s, i, e, delims) ==
    LET tail(d) ==
            IF /\ e # 0
               /\ e + 5 <= Len(s)
               /\ At(s, e) \in delims
               /\ RunLen(s, e + 1, DigitSet) >= 4
               /\ At(s, e + 5) \in delims
               /\ d >= 3
            THEN Matched(SubSeq(s, i, e + 5 + Min2(d, 6)))
            ELSE NoMatch
    IN  tail(RunLen(s, e + 6, DigitSet))

\* (prefix [d1] \d{4} [d1] \d{3,6}) at position i, e.g. RFP-2025-002
CompactMatchAt(s, sl, i, pat) ==
    CompactTailAt(s, i, MatchWordsAt(sl, i, <<pat.prefix>>), pat.delims)

\* ([A-Z]{2,10}[-/]\d{4}[-/]\d{3,6}) at position i, e.g. TDR-2025-0012
GenericMatchAt(s, sl, i, pat) ==
    LET letters(r) ==
            IF r >= 2 /\ r <= 10 THEN CompactTailAt(s, i, i + r, pat.delims) ELSE NoMatch
    IN  letters(RunLen(s, i, LetterSet))

\* gem [/-] \d{4} [/-] [A-Z] [/-] \d{least,most} at position i: the position
\* after the match, 0 when there is none
GemEndAt(s, sl, i, least, most) ==
    LET digits_end(e, d) ==
            IF /\ e # 0
               /\ e + 7 <= Len(s)
               /\ At(s, e) \in {"/", "-"}
               /\ RunLen(s, e + 1, DigitSet) >= 4
               /\ At(s, e + 5) \in {"/", "-"}
               /\ At(s, e + 6) \in LetterSet
               /\ At(s, e + 7) \in {"/", "-"}
               /\ d >= least
            THEN e + 8 + (IF most = 0 THEN d ELSE Min2(d, most))
            ELSE 0
        after_gem(e) == digits_end(e, RunLen(s, e + 8, DigitSet))
    IN  after_gem(MatchWordsAt(sl, i, <<"gem">>))

\* gem_patterns[0] at i, and gem_patterns[1]: bid\s+number[:\s]+(gem...\d+)
GemMatchAt(s, sl, i, pat) ==
    LET \* the number starts at b and ends before g (0: no number at b)
        number(b, g) == IF g # 0 THEN Matched(SubSeq(s, b, g - 1)) ELSE NoMatch
        labelled(e, n) ==
            IF e # 0 /\ n >= 1 THEN number(e + n, GemEndAt(s, sl, e + n, 1, 0)) ELSE NoMatch
        after_label(e) == labelled(e, RunLen(s, e, WsSet \cup {":"}))
    IN  IF ~pat.labelled THEN number(i, GemEndAt(s, sl, i, 6, 10))
        ELSE after_label(MatchWordsAt(sl, i, <<"bid", "number">>))

PatternMatchAt(s, sl, i, pat) ==
    IF pat.kind = "label" THEN LabelMatchAt(s, sl, i, pat)
    ELSE IF pat.kind = "compact" THEN CompactMatchAt(s, sl, i, pat)
    ELSE IF pat.kind = "gem" THEN GemMatchAt(s, sl, i, pat)
    ELSE GenericMatchAt(s, sl, i, pat)

\* the positions of the text where the pattern matches (sl is lower(s))
MatchPositions(s, sl, pat) == {i \in 1..Len(s) : PatternMatchAt(s, sl, i, pat).ok}

\* re.findall(pattern, text, re.IGNORECASE)[0]: group 1 of the leftmost match
FirstMatch(s, sl, pat) ==
    LET match_at(p) == IF p = 0 THEN NoMatch ELSE PatternMatchAt(s, sl, p, pat)
    IN  match_at(MinOrZero(MatchPositions(s, sl, pat)))

Label(alts) == [kind |-> "label", alts |-> alts, seps |-> SepSet, least |-> 1, most |-> 0]
LabelN(alts, least, most) ==
    [kind |-> "label", alts |-> alts, seps |-> SepSet, least |-> least, most |-> most]
Compact(prefix) == [kind |-> "compact", prefix |-> prefix, delims |-> {"-", ":"}]

rfp_patterns == <<
    Label(<< <<"rfp">> >>),
    Label(<< <<"request", "for", "proposal">> >>),
    Label(<< <<"rfq">> >>),
    Label(<< <<"request", "for", "quotation">> >>),
    Compact("rfp"),
    Compact("rfq") >>

tender_patterns == <<
    Label(<< <<"tender", "no">>, <<"tender", "number">>, <<"tender", "id">>,
             <<"tender", "reference">> >>),
    LabelN(<< <<"tender">> >>, 4, 20),
    Compact("tender") >>

bid_patterns == <<
    Label(<< <<"bid", "no">>, <<"bid", "number">>, <<"bid", "id">> >>),
    LabelN(<< <<"bid">> >>, 4, 20),
    Compact("bid") >>

gem_patterns == <<
    [kind |-> "gem", labelled |-> FALSE],
    [kind |-> "gem", labelled |-> TRUE] >>

generic_pattern == [kind |-> "generic", delims |-> {"-", "/"}]

\* re.sub(r'^[:\s\-]+|[:\s\-]+$', '', s)
trim_seps(s) ==
    LET N == {i \in 1..Len(s) : At(s, i) \notin SepSet}
    IN  IF N = {} THEN "" ELSE SubSeq(s, SetMin(N), SetMax(N))

MinIdLen == 3

\* what a match (m.ok) of a pattern of the first three stages contributes:
\* its trimmed, upper-cased group when that is longer than 3
trimmed_pattern_id(m) ==
    LET checked(tender_id) ==
            IF m.ok /\ Len(tender_id) > MinIdLen THEN Matched(tender_id) ELSE NoMatch
    IN  checked(trim_seps(upper(strip(m.val))))

\* what a match of a pattern of the marketplace and generic stages contributes
plain_pattern_id(m) == IF m.ok THEN Matched(upper(strip(m.val))) ELSE NoMatch

\* the `for pattern in ...` loop of a stage from pattern k on: the first
\* pattern that returns
RECURSIVE stage_id(_, _, _, _, _)
stage_id(s, sl, patterns, k, trimmed) ==
    IF k > Len(patterns) THEN NoMatch
    ELSE LET first_of(r) == IF r.ok THEN r ELSE stage_id(s, sl, patterns, k + 1, trimmed)
             pattern_id(m) == IF trimmed THEN trimmed_pattern_id(m) ELSE plain_pattern_id(m)
         IN  first_of(pattern_id(FirstMatch(s, sl, patterns[k])))

\* the pattern lists of the five stages in the order the code tries them
\* (the generic stage has its one pattern), and whether a stage trims its
\* match and tests its length
stage_patterns ==
    <<rfp_patterns, tender_patterns, bid_patterns, gem_patterns, <<generic_pattern>> >>
stage_trims == <<TRUE, TRUE, TRUE, FALSE, FALSE>>

id_stages(s, sl, n) == stage_id(s, sl, stage_patterns[n], 1, stage_trims[n])

NumStages == 5

RECURSIVE stage_cascade(_, _, _)
stage_cascade(s, sl, n) ==
    LET first_of(r) == IF r.ok \/ n = NumStages THEN r ELSE stage_cascade(s, sl, n + 1)
    IN  first_of(id_stages(s, sl, n))

\* ok = FALSE is the None the code returns
extract_tender_id_of(s) == stage_cascade(s, lower(s), 1)

(***************************************************************************)
(* Tender ID Resolver: the persistent counter and ID generation            *)
(***************************************************************************)
TENDER_ID_PREFIX == "TDR"
TENDER_ID_YEAR == 2025
TENDER_ID_COUNTER_START == 1

\* str(n) for n >= 0
RECURSIVE NatToStr(_)
NatToStr(n) ==
    IF n < 10 THEN At(DigitAlpha, n + 1)
    ELSE NatToStr(n \div 10) \o At(DigitAlpha, (n % 10) + 1)

\* str(n)
IntToStr(n) == IF n < 0 THEN "-" \o NatToStr(-n) ELSE NatToStr(n)

DigitValue(c) == (CHOOSE i \in 1..10 : At(DigitAlpha, i) = c) - 1

RECURSIVE DigitsToNat(_)
DigitsToNat(s) ==
    IF Len(s) = 0 THEN 0
    ELSE 10 * DigitsToNat(SubSeq(s, 1, Len(s) - 1)) + DigitValue(At(s, Len(s)))

\* int(s): surrounding whitespace, an optional sign, decimal digits;
\* ok = FALSE is the ValueError
ParseInt(s) ==
    LET parsed(negative, digits) ==
            IF Len(digits) = 0 \/ \E i \in 1..Len(digits) : At(digits, i) \notin DigitSet
            THEN [ok |-> FALSE, val |-> 0]
            ELSE [ok |-> TRUE,
                  val |-> IF negative THEN -DigitsToNat(digits) ELSE DigitsToNat(digits)]
        signed(t) == Len(t) > 0 /\ At(t, 1) \in {"+", "-"}
        parse(t) == parsed(signed(t) /\ At(t, 1) = "-",
                           IF signed(t) THEN SubSeq(t, 2, Len(t)) ELSE t)
    IN  parse(strip(s))

\* f"{n:04d}"
Pad4(n) ==
    LET d == NatToStr(IF n < 0 THEN -n ELSE n)
        width == IF n < 0 THEN 3 ELSE 4
    IN  (IF n < 0 THEN "-" ELSE "")
        \o (IF Len(d) < width THEN Rep("0", width - Len(d)) ELSE "") \o d

\* a constructor that never reads the counter file
load_counter_unread(exists, content) == TENDER_ID_COUNTER_START

\* _load_counter: the value the constructor gives self.counter
load_counter(exists, content) ==
    LET loaded(n) == IF n.ok THEN n.val ELSE TENDER_ID_COUNTER_START
    IN  IF exists THEN loaded(ParseInt(strip(content))) ELSE TENDER_ID_COUNTER_START

\* the text _save_counter writes
saved_counter(c) == IntToStr(c)

\* the ID generate_tender_id formats for counter value c
format_tender_id(c) ==
    TENDER_ID_PREFIX \o "-" \o IntToStr(TENDER_ID_YEAR) \o "-" \o Pad4(c)

transient_prefixes == <<"temp_", "downloaded_", "attachment_">>

FilenameSet == LetterSet \cup DigitSet \cup {"-", "_"}

MinStemLen == 5

\* re.match(r'^[A-Za-z0-9\-_]+$', stem): `$` also matches before one final
\* newline
matches_filename_shape(stem) ==
    LET n == RunLen(stem, 1, FilenameSet)
    IN  /\ n >= 1
        /\ \/ n = Len(stem)
           \/ n = Len(stem) - 1 /\ At(stem, Len(stem)) = "\n"

\* a variant that upper-cases the stem, as the text stages do
filename_id_upper(given, stem) ==
    LET clean_id == upper(strip(stem))
    IN  IF /\ given
           /\ matches_filename_shape(stem)
           /\ Len(stem) > MinStemLen
           /\ ~\E k \in 1..Len(transient_prefixes) : startswith(strip(stem), transient_prefixes[k])
        THEN Matched(clean_id)
        ELSE NoMatch

\* Priority 1 of get_or_generate_tender_id: the ID taken from the file name
filename_id(given, stem) ==
    LET clean_id == strip(stem)
    IN  IF /\ given
           /\ matches_filename_shape(stem)
           /\ Len(stem) > MinStemLen
           /\ ~\E k \in 1..Len(transient_prefixes) : startswith(clean_id, transient_prefixes[k])
        THEN Matched(clean_id)
        ELSE NoMatch

(***************************************************************************)
(* Input documents                                                         *)
(***************************************************************************)
LinePool == {
    "Technical Specifications",
    "Type of cable: XLPE",
    "type of  cable:  xlpe",
    "payment terms",
    "payment terms, as per IS 7098",
    "Specifications of payment terms",
    "Warranty of cable",
    "Payment within 30 days",
    "Item category polymer pin insulator:",
    "Specification Name Allowed Values GENERIC Material of conductor Aluminium" }

\* a line whose record is longer than 200 characters
LongLine == "Item category: " \o Rep("polymer pin ", 17)

\* the five-line end-to-end scenario
ScenarioDoc ==
    "Technical Specifications\nMaterial of conductor: Aluminium\nType of cable: XLPE\n"
    \o "Terms and Conditions\nPayment within 30 days"

MaxLines == 3

RECURSIVE DocsOfLen(_)
DocsOfLen(n) ==
    IF n = 1 THEN LinePool
    ELSE {d \o "\n" \o l : d \in DocsOfLen(n - 1), l \in LinePool}

\* the documents of up to MaxLines lines of the pool, and the shorter ones
\* of them with the long line as their last line
Docs ==
    UNION {DocsOfLen(n) : n \in 1..MaxLines}
    \cup {d \o "\n" \o LongLine : d \in UNION {DocsOfLen(n) : n \in 1..(MaxLines - 1)}}
    \cup {ScenarioDoc}

(***************************************************************************)
(* TechSpecExtractor.extract_specs as a state machine                      *)
(***************************************************************************)
extractor_vars == <<section, product_specs, raw_specs, formatted_specs, count>>
detector_vars == <<pdf_stem, has_path, file_exists, file_content, counter, last_call,
                   generated, detector>>
cleaner_vars == <<raw_text, cleaned_texts>>
classifier_vars == <<message, verdict>>
info_vars == <<standards>>
batch_vars == <<found_pdfs, all_pdfs, attempted, extracted_dir, processed_count>>
orchestrator_vars == <<document, tender_data, batch_vars>>
pdf_vars == <<method_texts>>
retry_vars == <<max_retries, initial_delay, attempt, delay, last_exception, calls, waits, outcome>>
io_vars == <<pdf_vars, retry_vars>>
pipeline_vars == <<cleaner_vars, classifier_vars, info_vars, io_vars, orchestrator_vars>>
vars == <<text, pc, extractor_vars, detector_vars, inst, pipeline_vars>>

NoCall == [op |-> "none", source |-> "none", id |-> ""]

ExtractorIdle ==
    /\ section = ""
    /\ product_specs = <<>>
    /\ raw_specs = <<>>
    /\ formatted_specs = ""
    /\ count = 0

DetectorIdle ==
    /\ pdf_stem = ""
    /\ has_path = FALSE
    /\ file_exists = FALSE
    /\ file_content = ""
    /\ counter = TENDER_ID_COUNTER_START
    /\ last_call = NoCall
    /\ generated = <<>>
    /\ detector = 0

InstancesIdle == inst = <<>>

CleanerIdle ==
    /\ raw_text = <<>>
    /\ cleaned_texts = <<>>

NoMessage == [subject |-> "", body |-> "", sender |-> "", has_pdf |-> FALSE]

ClassifierIdle ==
    /\ message = NoMessage
    /\ verdict = FALSE

InfoIdle == standards = EmptyBag

NoException == [type |-> "none", text |-> "", status |-> 0]
NotEnded == [kind |-> "none", result |-> "", error |-> NoException]

PdfIdle == method_texts = <<>>

RetryIdle ==
    /\ max_retries = 0
    /\ initial_delay = 0
    /\ attempt = 0
    /\ delay = 0
    /\ last_exception = NoException
    /\ calls = <<>>
    /\ waits = <<>>
    /\ outcome = NotEnded

IoIdle == PdfIdle /\ RetryIdle

\* the empty dictionary {}
EmptyDict == [k \in {} |-> ""]

NoLlmInfo == [technical_specs |-> "", delivery |-> "", project_name |-> "", ministry |-> ""]

NoDocument ==
    [path |-> "", has_text |-> FALSE, raises |-> FALSE, tender_id |-> "",
     main_tech_specs |-> "", linked_tech_specs |-> <<>>,
     delivery |-> NoMatch, deadline |-> NoMatch,
     project_name |-> NoMatch, ministry |-> NoMatch, llm_info |-> NoLlmInfo]

BatchIdle ==
    /\ found_pdfs = <<>>
    /\ all_pdfs = <<>>
    /\ attempted = <<>>
    /\ extracted_dir = EmptyDict
    /\ processed_count = 0

OrchestratorIdle ==
    /\ document = NoDocument
    /\ tender_data = EmptyDict
    /\ BatchIdle

PipelineIdle ==
    /\ CleanerIdle
    /\ ClassifierIdle
    /\ InfoIdle
    /\ IoIdle
    /\ OrchestratorIdle

InitExtract ==
    /\ text \in Docs
    /\ ExtractorIdle
    /\ DetectorIdle
    /\ InstancesIdle
    /\ PipelineIdle
    /\ pc = "call"

extract_specs ==
    /\ pc = "call"
    /\ LET \* specs is what _extract_product_specifications returns
           returned(tech_spec_text, all_specs, specs) ==
               /\ section' = tech_spec_text
               /\ product_specs' = all_specs
               /\ IF tech_spec_text = "" \/ specs = <<>>
                  THEN /\ raw_specs' = EmptyResult.raw_specs
                       /\ formatted_specs' = EmptyResult.formatted_specs
                       /\ count' = EmptyResult.count
                  ELSE /\ raw_specs' = specs
                       /\ formatted_specs' = format_specs_concise(specs)
                       /\ count' = Len(specs)
           \* all_specs holds the records of the four passes
           passes(tech_spec_text, all_specs) ==
               returned(tech_spec_text, all_specs, unique_specs(all_specs, 1, {}, <<>>))
           located(tech_spec_text) ==
               passes(tech_spec_text,
                      IF tech_spec_text = "" THEN <<>> ELSE all_pass_specs(tech_spec_text))
       IN  located(extract_tech_spec_section_only(text))
    /\ pc' = "done"
    /\ UNCHANGED <<text, detector_vars, inst, pipeline_vars>>

NextExtract == extract_specs

SpecExtract == InitExtract /\ [][NextExtract]_vars


(***************************************************************************)
(* Section Locator and Specification Extractor properties (SpecExtract)    *)
(***************************************************************************)
TextLines == split(text, "\n")

HasEndKeyword(line) == AnyIn(section_end_keywords, strip(lower(line)))
HasIndicator(line) == AnyIn(product_spec_indicators, strip(lower(line)))
IsHeader(line) == is_tech_spec_header(strip(lower(line)))

HeaderLinesOf(lines) == {i \in 1..Len(lines) : IsHeader(lines[i])}
HeaderLines == HeaderLinesOf(TextLines)

\* the lines after the first header that contain an end keyword and no
\* product-spec indicator
EndLinesOf(lines) ==
    LET H == HeaderLinesOf(lines)
        first == IF H = {} THEN Len(lines) ELSE SetMin(H)
    IN  {i \in (first + 1)..Len(lines) : HasEndKeyword(lines[i]) /\ ~HasIndicator(lines[i])}

EndLines == EndLinesOf(TextLines)

\* the end lines that are not header lines themselves
ClosingLines == LET lines == TextLines IN {i \in EndLinesOf(lines) : ~IsHeader(lines[i])}

\* the lines of the text at the positions of S, in the order of the text
RECURSIVE Pick(_, _, _)
Pick(lines, S, i) ==
    IF i > Len(lines) THEN <<>>
    ELSE (IF i \in S THEN <<lines[i]>> ELSE <<>>) \o Pick(lines, S, i + 1)

\* the returned section is made of lines before line e only
SectionWithin(e) ==
    LET lines == TextLines
    IN  \E S \in SUBSET (1..(e - 1)) : section = join("\n", Pick(lines, S, 1))

\* C1 as stated: once a header line has matched, the first later line that
\* contains an end keyword and no product-spec indicator closes the
\* section: that line and every line after it are absent from the section.
C1_AnyEndLineCloses ==
    pc = "done" => LET E == EndLines IN E # {} => SectionWithin(SetMin(E))

\* C1, amended: once a header line has matched, the first later line that
\* contains an end keyword and no product-spec indicator and is not itself
\* a header line closes the section: that line and every line after it,
\* later header lines included, are absent from the returned section.
C1_ClosingLineEndsSection ==
    pc = "done" => LET C == ClosingLines IN C # {} => SectionWithin(SetMin(C))

\* a section was closed and a header line after the closing line was left out
C1_Witness ==
    /\ pc = "done"
    /\ ClosingLines # {}
    /\ \E h \in HeaderLines : h > SetMin(ClosingLines)
    /\ section # ""
    /\ SectionWithin(SetMin(ClosingLines))

\* C2: after a header line, the line "payment terms" ends the collection
\* and the line "payment terms, as per IS 7098" does not: it is kept in the
\* section, the standard reference counting as a product-spec indicator.
C2_IndicatorOverride ==
    (pc = "done" /\ Len(TextLines) >= 2 /\ IsHeader(TextLines[1]))
    => /\ TextLines[2] = "payment terms" => section = TextLines[1]
       /\ TextLines[2] = "payment terms, as per IS 7098"
          => startswith(section, TextLines[1] \o "\n" \o TextLines[2])

IsEmptyResult == raw_specs = <<>> /\ formatted_specs = "" /\ count = 0

\* C3: when no line of the text matches a header pattern the section is
\* the empty string and extract_specs returns raw_specs = [],
\* formatted_specs = '', count = 0; it returns the same when a section is
\* found and the passes yield no record.  The call always returns.
C3_EmptyResult ==
    pc = "done" =>
        /\ HeaderLines = {} => (section = "" /\ IsEmptyResult)
        /\ (section # "" /\ product_specs = <<>>) => IsEmptyResult

\* a text without a header line whose lines would have yielded records
C3_Witness ==
    /\ pc = "done"
    /\ HeaderLines = {}
    /\ extract_key_value_specs(text) # <<>>
    /\ section = ""
    /\ IsEmptyResult

\* the value of a "key: value" record (the whole record when it has no colon)
ValueOf(record) == IF Contains(record, ":") THEN strip(split1(record, ":")[2]) ELSE record
KeyOf(record) == IF Contains(record, ":") THEN strip(split1(record, ":")[1]) ELSE ""

\* lower-casing and whitespace normalization of a record
Normalized(record) == normalize_ws(lower(record))

\* C9: in every raw_specs list extract_specs returns, each record's value
\* (and the whole record) is shorter than 200 characters, and no two
\* records are equal after lower-casing and whitespace normalization.
C9_ShortAndDistinct ==
    pc = "done" =>
        /\ \A i \in 1..Len(raw_specs) :
               Len(ValueOf(raw_specs[i])) < 200 /\ Len(raw_specs[i]) < 200
        /\ \A i, j \in 1..Len(raw_specs) :
               i # j => Normalized(raw_specs[i]) # Normalized(raw_specs[j])

\* the passes produced two records that differ in case and spacing only,
\* and one of them was returned
C9_Witness ==
    /\ pc = "done"
    /\ \E i, j \in 1..Len(product_specs) :
           /\ i # j
           /\ product_specs[i] # product_specs[j]
           /\ Normalized(product_specs[i]) = Normalized(product_specs[j])
    /\ Len(raw_specs) = 1

\* C10: every record extract_specs returns has a non-empty key and a
\* non-empty value.
C10_KeyAndValueNonEmpty ==
    pc = "done" =>
        \A i \in 1..Len(raw_specs) :
            KeyOf(raw_specs[i]) # "" /\ ValueOf(raw_specs[i]) # ""

\* C11: for the five-line input 'Technical Specifications / Material of
\* conductor: Aluminium / Type of cable: XLPE / Terms and Conditions /
\* Payment within 30 days' the section is exactly the header and the two
\* spec lines, and extract_specs returns exactly the two records
\* "Material of conductor: Aluminium" and "Type of cable: XLPE".
C11_Scenario ==
    (pc = "done" /\ text = ScenarioDoc) =>
        /\ section = "Technical Specifications\nMaterial of conductor: Aluminium\n"
                     \o "Type of cable: XLPE"
        /\ raw_specs = <<"Material of conductor: Aluminium", "Type of cable: XLPE">>
        /\ count = 2

\* the scenario was run: its section was found and both records came from
\* the key-value pass alone
C11_Witness ==
    /\ pc = "done"
    /\ text = ScenarioDoc
    /\ Len(split(section, "\n")) = 3
    /\ product_specs = extract_key_value_specs(section)
    /\ Len(raw_specs) = 2

(***************************************************************************)
(* TenderIDDetector as a state machine: one live detector                  *)
(***************************************************************************)
IdFragments == {
    "RFQ for cables",
    "RFQ: ABCD-1234",
    "Ref XYZ-2025-001",
    "RFP-2025-002",
    "Tender No: T-77/2025",
    "GEM/2025/B/6866936",
    "no identifiers here" }

MaxFragments == 3

RECURSIVE TextsOfLen(_)
TextsOfLen(n) ==
    IF n = 1 THEN IdFragments
    ELSE {t \o ". " \o f : t \in TextsOfLen(n - 1), f \in IdFragments}

IdTexts == UNION {TextsOfLen(n) : n \in 1..MaxFragments}

\* <<pdf_path given, pdf_path.stem>>
PathInputs == {
    <<FALSE, "">>,
    <<TRUE, "RFP-2025-0042">>,
    <<TRUE, "GeM-Bidding-8616346">>,
    <<TRUE, "temp_8616346">>,
    <<TRUE, "scan1">>,
    <<TRUE, "tender 2025">>,
    <<TRUE, "GeM-8616346\n">> }

\* what the counter file holds before the first detector is constructed
InitialFiles == {<<FALSE, "">>, <<TRUE, "41">>, <<TRUE, " 7\n">>, <<TRUE, "">>}

MaxGenerations == 3
MaxRestarts == 2

Call(op, source, id) == [op |-> op, source |-> source, id |-> id]

\* a plausible slip: the incremented counter is never written back
generate_effect_unsaved ==
    /\ Len(generated) < MaxGenerations
    /\ counter' = counter + 1
    /\ UNCHANGED <<file_exists, file_content>>
    /\ generated' = Append(generated, [detector |-> detector, counter |-> counter'])

\* generate_tender_id: increment, save, format
generate_effect ==
    /\ Len(generated) < MaxGenerations
    /\ counter' = counter + 1
    /\ file_exists' = TRUE
    /\ file_content' = saved_counter(counter')
    /\ generated' = Append(generated, [detector |-> detector, counter |-> counter'])

generate_tender_id ==
    /\ generate_effect
    /\ last_call' = Call("generate", "generated", format_tender_id(counter'))
    /\ UNCHANGED <<text, pdf_stem, has_path, detector, extractor_vars, inst, pipeline_vars>>

extract_tender_id(t) ==
    /\ text' = t
    /\ LET returned(r) == Call("extract", IF r.ok THEN "text" ELSE "none", r.val)
       IN  last_call' = returned(extract_tender_id_of(t))
    /\ UNCHANGED <<pdf_stem, has_path, file_exists, file_content, counter,
                   generated, detector, extractor_vars, inst, pipeline_vars>>

\* path is <<pdf_path given, pdf_path.stem>>
get_or_generate_tender_id(t, path) ==
    /\ text' = t
    /\ has_path' = path[1]
    /\ pdf_stem' = path[2]
    /\ LET \* Priority 2 and 3, for the tender_id r that extract_tender_id returns
           from_text(r) ==
               IF r.ok
               THEN /\ last_call' = Call("get_or_generate", "text", r.val)
                    /\ UNCHANGED <<file_exists, file_content, counter, generated>>
               ELSE /\ generate_effect
                    /\ last_call' = Call("get_or_generate", "generated",
                                         format_tender_id(counter'))
           \* Priority 1, for the ID f taken from the file name
           from_filename(f) ==
               IF f.ok
               THEN /\ last_call' = Call("get_or_generate", "filename", f.val)
                    /\ UNCHANGED <<file_exists, file_content, counter, generated>>
               ELSE from_text(extract_tender_id_of(t))
       IN  from_filename(filename_id(path[1], path[2]))
    /\ UNCHANGED <<detector, extractor_vars, inst, pipeline_vars>>

\* TenderIDDetector(): a new detector replaces the live one (restart)
construct_detector ==
    /\ detector < MaxRestarts
    /\ detector' = detector + 1
    /\ counter' = load_counter(file_exists, file_content)
    /\ last_call' = Call("construct", "none", "")
    /\ UNCHANGED <<text, pdf_stem, has_path, file_exists, file_content, generated,
                   extractor_vars, inst, pipeline_vars>>

\* one call of the resolver on one document, by a detector constructed
\* when no counter file existed
InitResolve ==
    /\ text \in IdTexts
    /\ \E p \in PathInputs : has_path = p[1] /\ pdf_stem = p[2]
    /\ file_exists = FALSE
    /\ file_content = ""
    /\ counter = load_counter(file_exists, file_content)
    /\ last_call = Call("construct", "none", "")
    /\ generated = <<>>
    /\ detector = 0
    /\ ExtractorIdle
    /\ InstancesIdle
    /\ PipelineIdle
    /\ pc = "call"

ResolveCall ==
    /\ pc = "call"
    /\ pc' = "done"
    /\ get_or_generate_tender_id(text, <<has_path, pdf_stem>>)

ExtractCall ==
    /\ pc = "call"
    /\ pc' = "done"
    /\ extract_tender_id(text)

NextResolve == ResolveCall \/ ExtractCall

SpecResolve == InitResolve /\ [][NextResolve]_vars

(***************************************************************************)
(* Tender ID priority (SpecResolve)                                        *)
(***************************************************************************)
\* the trimmed, upper-cased group of every place of the text where pattern
\* pat matches, kept when it passes the length test of the stage
ReferencesOf(s, sl, pat) ==
    {id \in {trim_seps(upper(strip(PatternMatchAt(s, sl, i, pat).val))) :
                 i \in MatchPositions(s, sl, pat)} : Len(id) > MinIdLen}

\* the RFP/RFQ references a text contains
RfpReferences(s) ==
    UNION {ReferencesOf(s, lower(s), rfp_patterns[k]) : k \in 1..Len(rfp_patterns)}

\* the generic XXX-2025-001-shaped tokens a text contains
GenericTokens(s) ==
    {upper(strip(PatternMatchAt(s, lower(s), i, generic_pattern).val)) :
         i \in MatchPositions(s, lower(s), generic_pattern)}

\* C4: extract_tender_id returns the match of the earliest stage that has
\* one: for a text that contains both an RFP/RFQ reference and a generic
\* XXX-2025-001-shaped token, the call returns an RFP/RFQ reference of the
\* text, never the generic token.
C4_PriorityCascade ==
    (pc = "done" /\ last_call.op = "extract"
        /\ RfpReferences(text) # {} /\ GenericTokens(text) # {})
    => (last_call.source = "text" /\ last_call.id \in RfpReferences(text))

\* the characters of ^[A-Za-z0-9\-_]+$ and nothing else
OnlyFilenameChars(stem) ==
    Len(stem) > 0 /\ \A i \in 1..Len(stem) : At(stem, i) \in FilenameSet

FilenameEligible ==
    /\ has_path
    /\ OnlyFilenameChars(pdf_stem)
    /\ Len(pdf_stem) > MinStemLen
    /\ ~startswith(pdf_stem, "temp_")
    /\ ~startswith(pdf_stem, "downloaded_")
    /\ ~startswith(pdf_stem, "attachment_")

CounterTexts == {"RFQ: ABCD-1234", "no identifiers here"}
CounterPaths == {<<FALSE, "">>, <<TRUE, "RFP-2025-0042">>, <<TRUE, "scan1">>}

InitCounter ==
    /\ text = ""
    /\ has_path = FALSE
    /\ pdf_stem = ""
    /\ \E f \in InitialFiles : file_exists = f[1] /\ file_content = f[2]
    /\ counter = load_counter(file_exists, file_content)
    /\ last_call = Call("construct", "none", "")
    /\ generated = <<>>
    /\ detector = 0
    /\ ExtractorIdle
    /\ InstancesIdle
    /\ PipelineIdle
    /\ pc = "run"

LookupCall ==
    \E t \in CounterTexts, p \in CounterPaths :
        get_or_generate_tender_id(t, p) /\ UNCHANGED pc

TextCall == \E t \in CounterTexts : extract_tender_id(t) /\ UNCHANGED pc

GenerateCall == generate_tender_id /\ UNCHANGED pc

Restart == construct_detector /\ UNCHANGED pc

NextCounter == LookupCall \/ TextCall \/ GenerateCall \/ Restart

SpecCounter == InitCounter /\ [][NextCounter]_vars

\* C6: the counters of the generated IDs are strictly increasing in the
\* order of generation, within one detector and across restarts: a
\* detector constructed later continues above every counter generated
\* before it was constructed.
C6_StrictlyIncreasing ==
    \A i, j \in 1..Len(generated) :
        i < j => generated[i].counter < generated[j].counter

\* two generations by one detector, a restart, and a generation by the
\* detector constructed after them
C6_Witness ==
    \E i, j, k \in 1..Len(generated) :
        /\ i < j /\ j < k
        /\ generated[i].detector = generated[j].detector
        /\ generated[j].detector < generated[k].detector

\* C8: the counter changes only on generation: a step that resolves the ID
\* from the file name or from the text, and any extract_tender_id step,
\* leaves the in-memory counter and the counter file unchanged; a step that
\* generates adds exactly one to the counter and rewrites the file with the
\* new value.
C8_CounterFrame ==
    [][/\ (last_call'.op = "extract" \/ last_call'.source \in {"filename", "text"})
          => (counter' = counter /\ file_exists' = file_exists
                                 /\ file_content' = file_content)
       /\ last_call'.source = "generated"
          => (counter' = counter + 1 /\ file_exists' /\ file_content' = IntToStr(counter'))
      ]_vars

\* a lookup resolved without generating, after a generation: the counter
\* and the file still hold the last generated value
C8_Witness ==
    /\ last_call.op = "get_or_generate"
    /\ last_call.source \in {"filename", "text"}
    /\ Len(generated) >= 1
    /\ counter = generated[Len(generated)].counter
    /\ file_content = IntToStr(counter)

(***************************************************************************)
(* Two pipeline instances sharing the counter file (SpecRace)              *)
(***************************************************************************)
Detectors == {"A", "B"}

Absent == [pc |-> "absent", counter |-> 0, fresh |-> FALSE, ids |-> <<>>]

InitRace ==
    /\ inst = [d \in Detectors |-> Absent]
    /\ \E f \in InitialFiles : file_exists = f[1] /\ file_content = f[2]
    /\ text = ""
    /\ has_path = FALSE
    /\ pdf_stem = ""
    /\ counter = TENDER_ID_COUNTER_START
    /\ last_call = NoCall
    /\ generated = <<>>
    /\ detector = 0
    /\ ExtractorIdle
    /\ PipelineIdle
    /\ pc = "run"

race_frame == <<text, pc, extractor_vars, pdf_stem, has_path, counter, last_call,
                generated, detector, pipeline_vars>>

\* no instance has started to generate
NoneGenerating ==
    \A e \in Detectors : inst[e].pc \in {"absent", "idle"} /\ inst[e].ids = <<>>

\* TenderIDDetector() in instance d: the file is read once, here.  fresh
\* records that d was constructed before any instance generated.
Construct(d) ==
    /\ inst[d].pc = "absent"
    /\ inst' = [inst EXCEPT ![d] = [pc |-> "idle",
                                    counter |-> load_counter(file_exists, file_content),
                                    fresh |-> NoneGenerating,
                                    ids |-> <<>>]]
    /\ UNCHANGED <<file_exists, file_content, race_frame>>

\* a variant that reads the file again before it increments
BeginGenerate_reread(d) ==
    /\ inst[d].pc = "idle"
    /\ Len(inst[d].ids) < MaxGenerations
    /\ inst' = [inst EXCEPT ![d].pc = "incremented",
                            ![d].counter = load_counter(file_exists, file_content) + 1]
    /\ UNCHANGED <<file_exists, file_content, race_frame>>

\* generate_tender_id in instance d: self.counter += 1
BeginGenerate(d) ==
    /\ inst[d].pc = "idle"
    /\ Len(inst[d].ids) < MaxGenerations
    /\ inst' = [inst EXCEPT ![d].pc = "incremented",
                            ![d].counter = inst[d].counter + 1]
    /\ UNCHANGED <<file_exists, file_content, race_frame>>

\* _save_counter: open(self.counter_file, 'w') creates or truncates the file
OpenCounterFile(d) ==
    /\ inst[d].pc = "incremented"
    /\ file_exists' = TRUE
    /\ file_content' = ""
    /\ inst' = [inst EXCEPT ![d].pc = "opened"]
    /\ UNCHANGED race_frame

\* _save_counter: f.write(str(self.counter)); generate_tender_id returns
\* the formatted ID
WriteCounter(d) ==
    /\ inst[d].pc = "opened"
    /\ file_exists' = TRUE
    /\ file_content' = saved_counter(inst[d].counter)
    /\ inst' = [inst EXCEPT ![d].pc = "idle",
                            ![d].ids = Append(inst[d].ids, format_tender_id(inst[d].counter))]
    /\ UNCHANGED race_frame

NextRace ==
    \E d \in Detectors :
        \/ Construct(d)
        \/ BeginGenerate(d)
        \/ OpenCounterFile(d)
        \/ WriteCounter(d)

SpecRace == InitRace /\ [][NextRace]_vars

\* C7: two detectors that share the counter file and were both constructed
\* before either generated return the same ID from their first generation
\* (and from their n-th): the file is read once, at construction, and is
\* rewritten without a lock, so the duplicate is unavoidable.
C7_RaceDuplicates ==
    \A d, e \in Detectors :
        (inst[d].pc # "absent" /\ inst[e].pc # "absent" /\ inst[d].fresh /\ inst[e].fresh)
        => \A n \in 1..Len(inst[d].ids) :
               n <= Len(inst[e].ids) => inst[d].ids[n] = inst[e].ids[n]

\* both detectors have generated and hold the same ID
C7_Witness ==
    /\ inst["A"].pc # "absent" /\ inst["B"].pc # "absent"
    /\ inst["A"].fresh /\ inst["B"].fresh
    /\ Len(inst["A"].ids) >= 1
    /\ Len(inst["B"].ids) >= 1
    /\ inst["A"].ids[1] = inst["B"].ids[1]

(***************************************************************************)
(* Text Normalizer: utils/text_cleaner.clean_text                          *)
(* A text is a sequence of code points here: the control characters the    *)
(* function removes cannot be written in a string.                         *)
(***************************************************************************)
\* the code points of the ASCII range that \s matches and str.strip() strips
WsCodes == {9, 10, 11, 12, 13, 28, 29, 30, 31, 32}
\* [\x00-\x08\x0b-\x0c\x0e-\x1f]
ControlCodes == (0..8) \cup (11..12) \cup (14..31)
SpaceCode == 32
NewlineCode == 10

\* length of the maximal run of code points of class C that starts at i
CodeRun(s, i, C) ==
    LET B == {j \in i..Len(s) : s[j] \notin C}
    IN  IF i > Len(s) THEN 0
        ELSE IF B = {} THEN Len(s) - i + 1 ELSE SetMin(B) - i

\* re.sub(r'\s+', ' ', text): the first code point of a run of whitespace
\* becomes a space, the others of the run go
sub_whitespace(s) ==
    LET replaced == [k \in 1..Len(s) |->
                        IF s[k] \notin WsCodes THEN s[k]
                        ELSE IF k = 1 \/ s[k - 1] \notin WsCodes THEN SpaceCode
                        ELSE -1]
        kept(c) == c # -1
    IN  SelectSeq(replaced, kept)

\* re.sub(r'[\x00-\x08\x0b-\x0c\x0e-\x1f]', '', text)
sub_control(s) ==
    LET kept(c) == c \notin ControlCodes
    IN  SelectSeq(s, kept)

\* re.sub(r'\n\s*\n', '\n\n', text): a match starts at the first newline
\* of a run of whitespace and ends at the last newline of the run; of the
\* match its first and its last newline stay
sub_line_breaks(s) ==
    LET newline_before(k) ==
            \E i \in 1..(k - 1) :
                s[i] = NewlineCode /\ \A m \in i..k : s[m] \in WsCodes
        newline_after(k) ==
            \E j \in (k + 1)..Len(s) :
                s[j] = NewlineCode /\ \A m \in k..j : s[m] \in WsCodes
        replaced == [k \in 1..Len(s) |->
                        IF newline_before(k) /\ newline_after(k) THEN -1 ELSE s[k]]
        kept(c) == c # -1
    IN  SelectSeq(replaced, kept)

\* text.strip()
strip_codes(s) ==
    LET N == {i \in 1..Len(s) : s[i] \notin WsCodes}
    IN  IF N = {} THEN <<>> ELSE SubSeq(s, SetMin(N), SetMax(N))

clean_text(t) ==
    IF t = <<>> THEN <<>>
    ELSE strip_codes(sub_line_breaks(sub_control(sub_whitespace(t))))

\* NUL, newline, the unit separator (whitespace and control character at
\* once), space and the letter a
CleanAlphabet == {0, 10, 31, 32, 97}

MaxCleanLen == 5

RawTexts == UNION {[1..n -> CleanAlphabet] : n \in 0..MaxCleanLen}

InitClean ==
    /\ raw_text \in RawTexts
    /\ cleaned_texts = <<>>
    /\ text = ""
    /\ ExtractorIdle
    /\ DetectorIdle
    /\ InstancesIdle
    /\ ClassifierIdle
    /\ InfoIdle
    /\ IoIdle
    /\ OrchestratorIdle
    /\ pc = "call"

\* clean_text(text)
CleanCall ==
    /\ pc = "call"
    /\ cleaned_texts' = <<clean_text(raw_text)>>
    /\ pc' = "cleaned"
    /\ UNCHANGED <<text, raw_text, extractor_vars, detector_vars, inst, classifier_vars, info_vars, io_vars,
                 orchestrator_vars>>

\* clean_text applied to its own result
CleanAgain ==
    /\ pc = "cleaned"
    /\ cleaned_texts' = Append(cleaned_texts, clean_text(cleaned_texts[1]))
    /\ pc' = "done"
    /\ UNCHANGED <<text, raw_text, extractor_vars, detector_vars, inst, classifier_vars, info_vars, io_vars,
                 orchestrator_vars>>

NextClean == CleanCall \/ CleanAgain

SpecClean == InitClean /\ [][NextClean]_vars

\* C12: clean_text is idempotent: for every input string x,
\* clean_text(clean_text(x)) = clean_text(x), control characters between
\* whitespace included.
C12_Idempotent == pc = "done" => cleaned_texts[2] = cleaned_texts[1]


(***************************************************************************)
(* Classifier: gmail_engine/email_classifier.EmailClassifier               *)
(***************************************************************************)
subject_keywords == <<
    "rfp", "request for proposal", "tender", "tender no", "tender number",
    "tender id", "tender reference", "rfq", "request for quotation",
    "invitation to tender", "bid", "bidding", "procurement">>

exclude_patterns == <<
    "new global tenders added", "new indian tender", "tender results added",
    "verify your email", "email verification", "account verification",
    "newsletter", "update your preferences", "unsubscribe", "marketing",
    "promotional">>

body_keywords == <<
    "rfp", "request for proposal", "tender", "rfq", "request for quotation",
    "technical specification", "boq", "bill of quantities", "procurement",
    "bid", "bidding">>

pdf_keywords == <<"tender", "bid", "rfq", "rfp", "specification", "boq", "procurement">>

\* sum(1 for keyword in keywords if keyword in s)
keyword_matches(keywords, s) ==
    Cardinality({i \in 1..Len(keywords) : Contains(s, keywords[i])})

\* the words of the first four tender_number_patterns
number_prefixes == <<"tender", "rfq", "rfp", "bid">>

\* the classes [:\s] and [A-Z0-9\-/] (under re.IGNORECASE) and [-/]
PrefixSeparators == {":"} \cup WsSet
NumberChars == LetterSet \cup DigitSet \cup {"-", "/"}
ShapeSeparators == {"-", "/"}

\* word[:\s]+[A-Z0-9\-/]+ matched at position i (sl is s in lower case)
PrefixedNumberAt(s, sl, i, word) ==
    LET j == i + Len(word)
        numbered(n) == n >= 1 /\ j + n <= Len(s) /\ At(s, j + n) \in NumberChars
    IN  /\ j - 1 <= Len(s)
        /\ SubSeq(sl, i, j - 1) = word
        /\ numbered(RunLen(s, j, PrefixSeparators))

\* [A-Z]{2,10}[-/]\d{4}[-/]\d{3,6} matched at position i
NumberShapeAt(s, i) ==
    LET shaped(n) ==
            /\ n >= 2
            /\ n <= 10
            /\ i + n + 8 <= Len(s)
            /\ At(s, i + n) \in ShapeSeparators
            /\ \A k \in 1..4 : At(s, i + n + k) \in DigitSet
            /\ At(s, i + n + 5) \in ShapeSeparators
            /\ RunLen(s, i + n + 6, DigitSet) >= 3
    IN  \E n \in 2..10 : n <= RunLen(s, i, LetterSet) /\ shaped(n)

\* any(re.search(pattern, subject, re.IGNORECASE) for pattern in tender_number_patterns)
has_tender_number(subject) ==
    LET searched(sl) ==
            \E i \in 1..Len(subject) :
                \/ \E w \in 1..Len(number_prefixes) :
                       PrefixedNumberAt(subject, sl, i, number_prefixes[w])
                \/ NumberShapeAt(subject, i)
    IN  searched(lower(subject))

\* the primary check: a subject keyword in the subject
subject_accepts(subject_lower) == AnyIn(subject_keywords, subject_lower)

\* the exclusion stage: a pattern in the body that is not in the subject
exclusion_rejects(subject_lower, body_lower) ==
    \E i \in 1..Len(exclude_patterns) :
        /\ Contains(body_lower, exclude_patterns[i])
        /\ ~Contains(subject_lower, exclude_patterns[i])

\* the stages after the exclusion: body keywords, PDF keywords, tender number
later_stages_accept(subject, body_lower, full_text, has_pdf) ==
    \/ keyword_matches(body_keywords, body_lower) >= 2
    \/ has_pdf /\ keyword_matches(pdf_keywords, full_text) >= 1
    \/ has_tender_number(subject)

\* the cascade with the exclusion stage ahead of the subject check
is_tender_email_exclusion_first(subject, body, sender, has_pdf) ==
    LET staged(subject_lower, body_lower, full_text) ==
            IF exclusion_rejects(subject_lower, body_lower) THEN FALSE
            ELSE IF subject_accepts(subject_lower) THEN TRUE
            ELSE later_stages_accept(subject, body_lower, full_text, has_pdf)
    IN  staged(lower(subject), lower(body), lower(subject \o " " \o body))

\* the cascade with one body keyword enough
is_tender_email_single_keyword(subject, body, sender, has_pdf) ==
    LET staged(subject_lower, body_lower, full_text) ==
            IF subject_accepts(subject_lower) THEN TRUE
            ELSE IF exclusion_rejects(subject_lower, body_lower) THEN FALSE
            ELSE \/ keyword_matches(body_keywords, body_lower) >= 1
                 \/ later_stages_accept(subject, body_lower, full_text, has_pdf)
    IN  staged(lower(subject), lower(body), lower(subject \o " " \o body))

\* the cascade with the exclusion stage behind the accepting stages
is_tender_email_exclusion_last(subject, body, sender, has_pdf) ==
    LET staged(subject_lower, body_lower, full_text) ==
            IF subject_accepts(subject_lower) THEN TRUE
            ELSE IF later_stages_accept(subject, body_lower, full_text, has_pdf) THEN TRUE
            ELSE FALSE
    IN  staged(lower(subject), lower(body), lower(subject \o " " \o body))

\* EmailClassifier.is_tender_email(subject, body, sender, has_pdf)
is_tender_email(subject, body, sender, has_pdf) ==
    LET staged(subject_lower, body_lower, full_text) ==
            IF subject_accepts(subject_lower) THEN TRUE
            ELSE IF exclusion_rejects(subject_lower, body_lower) THEN FALSE
            ELSE later_stages_accept(subject, body_lower, full_text, has_pdf)
    IN  staged(lower(subject), lower(body), lower(subject \o " " \o body))

\* the messages classified: phrases of a few words, and the subject and body
\* of the acceptance scenario
MaxSubjectWords == 2
MaxBodyWords == 2

SubjectWords == {"RFP", "Cable", "TDR-2025-0012", "Newsletter"}
BodyWords == {"tender", "boq", "bidding", "unsubscribe", "newsletter", "specification"}
ScenarioSubject == "RFP for cable supply"
ScenarioBody == "Click here to unsubscribe"
Senders == {"", "buyer@example.com"}

Phrases(words, n) == {join(" ", w) : w \in UNION {[1..k -> words] : k \in 0..n}}

Messages ==
    [subject : Phrases(SubjectWords, MaxSubjectWords) \cup {ScenarioSubject},
     body : Phrases(BodyWords, MaxBodyWords) \cup {ScenarioBody},
     sender : Senders,
     has_pdf : BOOLEAN]

InitClassify ==
    /\ message \in Messages
    /\ verdict = FALSE
    /\ text = ""
    /\ ExtractorIdle
    /\ DetectorIdle
    /\ InstancesIdle
    /\ CleanerIdle
    /\ InfoIdle
    /\ IoIdle
    /\ OrchestratorIdle
    /\ pc = "call"

\* a call of is_tender_email on the message
Classify ==
    /\ pc = "call"
    /\ verdict' = is_tender_email(message.subject, message.body, message.sender,
                                  message.has_pdf)
    /\ pc' = "done"
    /\ UNCHANGED <<text, message, extractor_vars, detector_vars, inst, cleaner_vars, info_vars, io_vars,
                 orchestrator_vars>>

NextClassify == Classify

SpecClassify == InitClassify /\ [][NextClassify]_vars

\* C13: a subject that contains one of the subject keyword phrases is
\* classified as tender whatever the body, the sender and has_pdf are; the
\* subject "RFP for cable supply" with "unsubscribe" only in the body is
\* classified as tender.
C13_SubjectShortCircuit ==
    pc = "done" =>
        /\ AnyIn(subject_keywords, lower(message.subject)) => verdict = TRUE
        /\ (message.subject = ScenarioSubject /\ message.body = ScenarioBody)
               => verdict = TRUE

C13_Witness ==
    /\ pc = "done"
    /\ message.subject = ScenarioSubject
    /\ message.body = ScenarioBody
    /\ Contains(lower(message.body), "unsubscribe")
    /\ ~Contains(lower(message.subject), "unsubscribe")
    /\ verdict = TRUE


\* the messages of the rejection claim: no subject keyword in the subject and
\* exactly one body keyword in the body
OneBodyKeyword ==
    /\ ~AnyIn(subject_keywords, lower(message.subject))
    /\ keyword_matches(body_keywords, lower(message.body)) = 1

\* C14 as stated: every message whose subject contains no tender keyword and
\* whose body contains exactly one tender keyword is rejected.
C14_OneKeywordRejected ==
    (pc = "done" /\ OneBodyKeyword) => verdict = FALSE

\* C14: a message whose subject contains no tender keyword and whose body
\* contains exactly one tender keyword is rejected when it carries no PDF
\* attachment and its subject has no tender-number shape.
C14_OneKeywordRejectedWithoutPdfOrNumber ==
    (/\ pc = "done"
     /\ OneBodyKeyword
     /\ ~message.has_pdf
     /\ ~has_tender_number(message.subject)) => verdict = FALSE

C14_Witness ==
    /\ pc = "done"
    /\ OneBodyKeyword
    /\ ~message.has_pdf
    /\ ~has_tender_number(message.subject)
    /\ ~AnyIn(exclude_patterns, lower(message.body))
    /\ message.subject # ""
    /\ verdict = FALSE


\* C15: when the subject contains no subject keyword and the body contains
\* an exclusion phrase that is not in the subject, the message is rejected
\* whatever the body keywords, has_pdf and the tender-number shape of the
\* subject are; when every exclusion phrase of the body is in the subject
\* too, the later stages decide.
C15_ExclusionRejects ==
    (pc = "done" /\ ~AnyIn(subject_keywords, lower(message.subject))) =>
        LET in_body(i) == Contains(lower(message.body), exclude_patterns[i])
            in_subject(i) == Contains(lower(message.subject), exclude_patterns[i])
            patterns == 1..Len(exclude_patterns)
        IN  /\ (\E i \in patterns : in_body(i) /\ ~in_subject(i)) => verdict = FALSE
            /\ (\A i \in patterns : in_body(i) => in_subject(i)) =>
                   verdict = later_stages_accept(message.subject, lower(message.body),
                                 lower(message.subject \o " " \o message.body),
                                 message.has_pdf)

C15_Witness ==
    /\ pc = "done"
    /\ ~AnyIn(subject_keywords, lower(message.subject))
    /\ Contains(lower(message.body), "unsubscribe")
    /\ ~Contains(lower(message.subject), "unsubscribe")
    /\ keyword_matches(body_keywords, lower(message.body)) >= 2
    /\ message.has_pdf
    /\ has_tender_number(message.subject)
    /\ verdict = FALSE

\* an exclusion phrase of the body that is in the subject too, and a message
\* accepted all the same
C15_SharedPhraseAccepted ==
    /\ pc = "done"
    /\ ~AnyIn(subject_keywords, lower(message.subject))
    /\ Contains(lower(message.body), "newsletter")
    /\ Contains(lower(message.subject), "newsletter")
    /\ verdict = TRUE


(***************************************************************************)
(* Important-Info Extractor: pdf_engine/important_info.extract_standards   *)
(***************************************************************************)
\* (?:IS|IEC|IEEE|BS|ASTM|ISO) under re.IGNORECASE
standard_bodies == <<"is", "iec", "ieee", "bs", "astm", "iso">>

\* the words ahead of the standard body in each of the three patterns, with
\* the alternatives of `conforms?`
standard_leads == <<
    {<<>>},
    {<<"as", "per">>},
    {<<"conforms", "to">>, <<"conform", "to">>}>>

\* (?:[/-]\d+)* from position e: the position after the last repetition
RECURSIVE NumberSuffixEnd(_, _)
NumberSuffixEnd(s, e) ==
    LET more(d) == IF d >= 1 THEN NumberSuffixEnd(s, e + 1 + d) ELSE e
    IN  IF e <= Len(s) /\ At(s, e) \in ShapeSeparators
        THEN more(RunLen(s, e + 1, DigitSet))
        ELSE e

\* pattern p matched at position i of s (sl is s in lower case): the
\* position after the match, 0 when there is no match at i
StandardEndAt(s, sl, i, p) ==
    LET digits(j, ws) ==
            IF ws >= 1 /\ RunLen(s, j + ws, DigitSet) >= 1
            THEN j + ws + RunLen(s, j + ws, DigitSet)
            ELSE 0
        numbered(j) == IF j = 0 THEN 0 ELSE digits(j, RunLen(s, j, WsSet))
        suffixed(e) == IF e = 0 \/ p # 1 THEN e ELSE NumberSuffixEnd(s, e)
    IN  suffixed(MinOrZero({numbered(MatchWordsAt(sl, i, lead \o <<standard_bodies[b]>>)) :
                               lead \in standard_leads[p],
                               b \in 1..Len(standard_bodies)} \ {0}))

\* re.findall(patterns[p], text, re.IGNORECASE) from position i on
RECURSIVE standard_matches(_, _, _, _)
standard_matches(s, sl, i, p) ==
    LET found(e) ==
            IF e = 0 THEN standard_matches(s, sl, i + 1, p)
            ELSE <<SubSeq(s, i, e - 1)>> \o standard_matches(s, sl, e, p)
    IN  IF i > Len(s) THEN <<>> ELSE found(StandardEndAt(s, sl, i, p))

\* the list `standards` after the loop over the patterns
all_standard_matches(t) ==
    LET extended(tl) == standard_matches(t, tl, 1, 1)
                        \o standard_matches(t, tl, 1, 2)
                        \o standard_matches(t, tl, 1, 3)
    IN  extended(lower(t))

\* a list as the bag of its entries
RECURSIVE BagOfList(_)
BagOfList(l) ==
    IF l = <<>> THEN EmptyBag ELSE BagOfList(Tail(l)) (+) SetToBag({Head(l)})

\* the list of all matches returned as it is
listed_standards(t) == BagOfList(all_standard_matches(t))

\* ImportantInfoExtractor.extract_standards(text): list(set(standards)), the
\* order of which is not determined
extract_standards(t) ==
    LET deduplicated(l) == SetToBag({l[i] : i \in 1..Len(l)})
    IN  deduplicated(all_standard_matches(t))

\* the texts searched: up to MaxPhrases phrases joined by " and "
MaxPhrases == 3

StandardPhrases == {
    "as per IS 7098", "conforms to IEC 60502", "IS 7098-1/2", "As Per is 7098",
    "this 12 cable", "conform  to ASTM 5/x"}

StandardTexts == {join(" and ", w) : w \in UNION {[1..k -> StandardPhrases] : k \in 0..MaxPhrases}}

InitStandards ==
    /\ text \in StandardTexts
    /\ ExtractorIdle
    /\ DetectorIdle
    /\ InstancesIdle
    /\ CleanerIdle
    /\ ClassifierIdle
    /\ InfoIdle
    /\ IoIdle
    /\ OrchestratorIdle
    /\ pc = "call"

\* a call of extract_standards on the text
ExtractStandards ==
    /\ pc = "call"
    /\ standards' = extract_standards(text)
    /\ pc' = "done"
    /\ UNCHANGED <<text, extractor_vars, detector_vars, inst, cleaner_vars, classifier_vars,
                 io_vars, orchestrator_vars>>

NextStandards == ExtractStandards

SpecStandards == InitStandards /\ [][NextStandards]_vars

Truthy(m) == m.ok /\ m.val # ""

\* `a or b` on strings
OrString(a, b) == IF a # "" THEN a ELSE b

\* `m or b` with m an Optional[str] and b a string, None turned into ''
OrOptional(m, b) == IF Truthy(m) THEN m.val ELSE b

\* the specs of the linked PDFs all appended to the specs of the main PDF
RECURSIVE combined_specs_all(_, _, _)
combined_specs_all(combined, linked, i) ==
    IF i > Len(linked) THEN combined
    ELSE combined_specs_all(combined \o "\n\n" \o linked[i], linked, i + 1)

\* the specs of the linked PDFs appended to the specs of the main PDF
RECURSIVE combined_specs(_, _, _)
combined_specs(combined, linked, i) ==
    IF i > Len(linked) THEN combined
    ELSE IF linked[i] # "" /\ ~Contains(combined, linked[i])
         THEN combined_specs(combined \o "\n\n" \o linked[i], linked, i + 1)
         ELSE combined_specs(combined, linked, i + 1)

\* tech_specs['formatted_specs'] after the main and the linked PDFs
tech_specs_of(main_tech_specs, linked_tech_specs) ==
    IF main_tech_specs = "" /\ linked_tech_specs # <<>>
    THEN join("\n\n", linked_tech_specs)
    ELSE IF main_tech_specs # "" /\ linked_tech_specs # <<>>
         THEN combined_specs(main_tech_specs, linked_tech_specs, 1)
         ELSE main_tech_specs

\* the specification text with the LLM value ahead of the rule-based one
llm_first_specifications(tech_specs_str, llm_tech_specs) ==
    OrString(llm_tech_specs, tech_specs_str)

\* technical_specifications = tech_specs_str or llm_tech_specs
merged_specifications(tech_specs_str, llm_tech_specs) ==
    OrString(tech_specs_str, llm_tech_specs)

\* delivery_deadline
merged_delivery(doc) ==
    OrOptional(doc.delivery, OrOptional(doc.deadline, doc.llm_info.delivery))

\* project_name and ministry: the LLM value or else the extractor's
merged_project_name(doc) == OrString(doc.llm_info.project_name, OrOptional(doc.project_name, ""))
merged_ministry(doc) == OrString(doc.llm_info.ministry, OrOptional(doc.ministry, ""))

\* the number of characters kept of the specification text
SpecsCharLimit == 2000

\* the cut applied to the text as it is, padding included
capped_unstripped(technical_specifications) ==
    IF Len(technical_specifications) > SpecsCharLimit
    THEN SubSeq(technical_specifications, 1, SpecsCharLimit) \o "..."
    ELSE strip(technical_specifications)

\* specs_clean
capped_specifications(technical_specifications) ==
    LET capped(specs_clean) ==
            IF Len(specs_clean) > SpecsCharLimit
            THEN SubSeq(specs_clean, 1, SpecsCharLimit) \o "..."
            ELSE specs_clean
    IN  capped(strip(technical_specifications))

\* the dictionary process_pdf returns for a document whose steps do not raise
process_pdf(doc) ==
    LET result == [tender_id |-> doc.tender_id,
                   delivery_deadline |-> merged_delivery(doc),
                   project_name |-> merged_project_name(doc),
                   ministry |-> merged_ministry(doc)]
        with_specs(technical_specifications) ==
            IF technical_specifications # "" /\ strip(technical_specifications) # ""
            THEN result @@ [technical_specifications |->
                                capped_specifications(technical_specifications)]
            ELSE result
    IN  IF ~doc.has_text THEN EmptyDict
        ELSE with_specs(merged_specifications(
                 tech_specs_of(doc.main_tech_specs, doc.linked_tech_specs),
                 doc.llm_info.technical_specs))

\* the documents processed: what the extractors and the LLM return for them
MaxLinked == 2

\* a text of n characters
RECURSIVE Filler(_)
Filler(n) ==
    IF n = 0 THEN ""
    ELSE IF n % 2 = 1 THEN "x" \o Filler(n - 1)
    ELSE LET doubled(h) == h \o h IN doubled(Filler(n \div 2))

ShortSpecs == {"Voltage: 1.1 kV\nConductor: Aluminium", "Armour: steel wire"}
LlmSpecs == {"", "Cable: XLPE", "   ", " Sheath: PVC\n"}
OptionalValues(v) == {NoMatch, Matched(v)}

LinkedSpecs == UNION {[1..k -> ShortSpecs] : k \in 0..MaxLinked}

\* documents with short texts, for every combination of present and absent
\* values
ShortDocuments ==
    [path : {"a.pdf"}, has_text : BOOLEAN, raises : {FALSE}, tender_id : {"RFP-2025-0042"},
     main_tech_specs : {""} \cup ShortSpecs,
     linked_tech_specs : LinkedSpecs,
     delivery : OptionalValues("delivery: 30 days"),
     deadline : OptionalValues("deadline: 12/01/2025"),
     project_name : OptionalValues("Supply of power cables"),
     ministry : OptionalValues("Ministry of Power"),
     llm_info : [technical_specs : LlmSpecs, delivery : {"", "45 days"},
                 project_name : {"", "Cable supply project"},
                 ministry : {"", "Ministry of Railways"}]]

\* documents whose specification text is about as long as the limit
LongLengths == {SpecsCharLimit - 1, SpecsCharLimit, SpecsCharLimit + 1}
SpecsPaddings == {"", " ", "\n\n"}
LongSpecs == {p \o Filler(n) \o q : p \in SpecsPaddings, q \in SpecsPaddings, n \in LongLengths}

LongDocuments ==
    [path : {"a.pdf"}, has_text : {TRUE}, raises : {FALSE}, tender_id : {"RFP-2025-0042"},
     main_tech_specs : {"", Filler(SpecsCharLimit), Filler(SpecsCharLimit + 1)},
     linked_tech_specs : {<<>>},
     delivery : {NoMatch}, deadline : {NoMatch}, project_name : {NoMatch},
     ministry : {NoMatch},
     llm_info : [technical_specs : LongSpecs, delivery : {""}, project_name : {""},
                 ministry : {""}]]

InitOutput ==
    /\ document \in ShortDocuments \cup LongDocuments
    /\ tender_data = EmptyDict
    /\ BatchIdle
    /\ text = ""
    /\ ExtractorIdle
    /\ DetectorIdle
    /\ InstancesIdle
    /\ CleanerIdle
    /\ ClassifierIdle
    /\ InfoIdle
    /\ IoIdle
    /\ pc = "call"

\* a call of process_pdf on the document
ProcessPdf ==
    /\ pc = "call"
    /\ tender_data' = process_pdf(document)
    /\ pc' = "done"
    /\ UNCHANGED <<text, extractor_vars, detector_vars, inst, cleaner_vars, classifier_vars,
                   info_vars, io_vars, document, batch_vars>>

NextOutput == ProcessPdf

SpecOutput == InitOutput /\ [][NextOutput]_vars

\* the rule-based specification text of the document
RuleSpecs == tech_specs_of(document.main_tech_specs, document.linked_tech_specs)

\* the rule-based delivery value: delivery, or else deadline
RuleDelivery == OrOptional(document.delivery, OrOptional(document.deadline, ""))

\* C17 as stated: for each of technical_specifications, delivery_deadline,
\* project_name and ministry, when the rule-based extractor and the LLM both
\* yield a non-empty value the output record carries the rule-based value.
C17_RuleBasedWins ==
    (pc = "done" /\ document.has_text) =>
        /\ (RuleSpecs # "" /\ strip(document.llm_info.technical_specs) # "") =>
               /\ "technical_specifications" \in DOMAIN tender_data
               /\ tender_data.technical_specifications = capped_specifications(RuleSpecs)
        /\ (RuleDelivery # "" /\ document.llm_info.delivery # "") =>
               tender_data.delivery_deadline = RuleDelivery
        /\ (Truthy(document.project_name) /\ document.llm_info.project_name # "") =>
               tender_data.project_name = document.project_name.val
        /\ (Truthy(document.ministry) /\ document.llm_info.ministry # "") =>
               tender_data.ministry = document.ministry.val

\* C17: for technical_specifications and delivery_deadline the output record
\* carries the rule-based value when there is one and the LLM value
\* otherwise; for project_name and ministry it carries the LLM value when
\* there is one and the rule-based value otherwise.
C17_PrecedencePerField ==
    (pc = "done" /\ document.has_text) =>
        /\ RuleSpecs # "" =>
               /\ "technical_specifications" \in DOMAIN tender_data
               /\ tender_data.technical_specifications = capped_specifications(RuleSpecs)
        /\ (RuleSpecs = "" /\ "technical_specifications" \in DOMAIN tender_data) =>
               tender_data.technical_specifications =
                   capped_specifications(document.llm_info.technical_specs)
        /\ tender_data.delivery_deadline =
               (IF RuleDelivery # "" THEN RuleDelivery ELSE document.llm_info.delivery)
        /\ tender_data.project_name =
               (IF document.llm_info.project_name # "" THEN document.llm_info.project_name
                ELSE IF Truthy(document.project_name) THEN document.project_name.val
                ELSE "")
        /\ tender_data.ministry =
               (IF document.llm_info.ministry # "" THEN document.llm_info.ministry
                ELSE IF Truthy(document.ministry) THEN document.ministry.val
                ELSE "")

C17_Witness ==
    /\ pc = "done"
    /\ document.has_text
    /\ RuleSpecs # ""
    /\ strip(document.llm_info.technical_specs) # ""
    /\ Truthy(document.delivery)
    /\ document.llm_info.delivery # ""
    /\ Truthy(document.project_name)
    /\ document.llm_info.project_name # ""
    /\ Truthy(document.ministry)
    /\ document.llm_info.ministry # ""
    /\ tender_data.technical_specifications = RuleSpecs
    /\ tender_data.delivery_deadline = document.delivery.val
    /\ tender_data.project_name = document.llm_info.project_name
    /\ tender_data.ministry = document.llm_info.ministry


\* the merged specification text of the document, stripped
StrippedSpecs ==
    strip(merged_specifications(RuleSpecs, document.llm_info.technical_specs))

\* C20: the record has a technical_specifications field only when the merged
\* specification text is non-empty after stripping; the field holds the
\* first 2000 characters at most of the stripped text, followed by "..."
\* exactly when the stripped text is longer than 2000 characters.
C20_SpecsCapped ==
    (pc = "done" /\ document.has_text) =>
        LET capped_to(stripped) ==
                /\ "technical_specifications" \in DOMAIN tender_data <=> stripped # ""
                /\ "technical_specifications" \in DOMAIN tender_data =>
                       tender_data.technical_specifications =
                           SubSeq(stripped, 1, Min2(Len(stripped), SpecsCharLimit))
                           \o (IF Len(stripped) > SpecsCharLimit THEN "..." ELSE "")
        IN  capped_to(StrippedSpecs)

C20_Witness ==
    /\ pc = "done"
    /\ document.has_text
    /\ Len(document.llm_info.technical_specs) > Len(StrippedSpecs)
    /\ Len(StrippedSpecs) = SpecsCharLimit + 1
    /\ tender_data.technical_specifications = Filler(SpecsCharLimit) \o "..."

\* a text that is longer than the limit only with its padding is not cut
C20_PaddedNotCut ==
    /\ pc = "done"
    /\ Len(document.llm_info.technical_specs) > SpecsCharLimit
    /\ Len(StrippedSpecs) = SpecsCharLimit
    /\ tender_data.technical_specifications = Filler(SpecsCharLimit)


(***************************************************************************)
(* Orchestrator: main.TenderAgent.run and save_tender_output               *)
(***************************************************************************)
\* list(all_pdfs_dict.values()): each resolved path once, in the order of
\* its first occurrence
RECURSIVE unique_paths(_, _)
unique_paths(pdfs, seen) ==
    IF pdfs = <<>> THEN <<>>
    ELSE IF Head(pdfs) \in seen THEN unique_paths(Tail(pdfs), seen)
    ELSE <<Head(pdfs)>> \o unique_paths(Tail(pdfs), seen \cup {Head(pdfs)})

\* save_tender_output: f"{tender_id}.json"
output_filename(data) == data.tender_id \o ".json"

\* write_text on EXTRACTED_DIR / filename raises FileNotFoundError when the
\* name has a directory part: ensure_directory makes EXTRACTED_DIR alone
write_fails(filename) == Contains(filename, "/")

\* save_json_file(tender_data, EXTRACTED_DIR, filename) on the directory dir
save_json_file(dir, filename, data) ==
    [f \in DOMAIN dir \cup {filename} |-> IF f = filename THEN data ELSE dir[f]]

\* the loop left at the first exception
position_after_abort(raised, i, n) == IF raised \/ i >= n THEN "done" ELSE "loop"

\* the loop after iteration i of n: the exception of an iteration is caught
\* inside it
position_after(raised, i, n) == IF i >= n THEN "done" ELSE "loop"

\* the documents of a batch, by resolved path: two with the same tender ID,
\* one whose processing raises, one without text, two with the same
\* GeM-style tender ID, one without an ID in its text or file name
MaxBatch == 3

PlainDocument(path, id, specs) ==
    [NoDocument EXCEPT !.path = path, !.has_text = TRUE, !.tender_id = id,
                       !.main_tech_specs = specs]

BatchDocuments ==
    {PlainDocument("a.pdf", "RFP-2025-0042", "Voltage: 1.1 kV"),
     PlainDocument("b.pdf", "RFP-2025-0042", "Armour: steel wire"),
     [PlainDocument("c.pdf", "TDR-2025-0001", "") EXCEPT !.raises = TRUE],
     [PlainDocument("d.pdf", "", "") EXCEPT !.has_text = FALSE],
     PlainDocument("e.pdf", "GEM/2025/B/1234567", "Sheath: PVC"),
     PlainDocument("f.pdf", "GEM/2025/B/1234567", "Sheath: HDPE"),
     PlainDocument("g.pdf", "", "Core: 3")}

BatchPaths == {d.path : d \in BatchDocuments}
DocumentAt(path) == CHOOSE d \in BatchDocuments : d.path = path

InitBatch ==
    /\ found_pdfs \in UNION {[1..n -> BatchPaths] : n \in 0..MaxBatch}
    /\ all_pdfs = <<>>
    /\ attempted = <<>>
    /\ extracted_dir = EmptyDict
    /\ processed_count = 0
    /\ document = NoDocument
    /\ tender_data = EmptyDict
    /\ text = ""
    /\ ExtractorIdle
    /\ DetectorIdle
    /\ InstancesIdle
    /\ CleanerIdle
    /\ ClassifierIdle
    /\ InfoIdle
    /\ IoIdle
    /\ pc = "call"

batch_frame == <<text, extractor_vars, detector_vars, inst, cleaner_vars, classifier_vars,
                 info_vars, io_vars>>

\* run() up to the loop: the PDFs found, without the duplicates; the
\* method returns when there is none
RunCollect ==
    /\ pc = "call"
    /\ all_pdfs' = unique_paths(found_pdfs, {})
    /\ pc' = IF unique_paths(found_pdfs, {}) = <<>> THEN "done" ELSE "loop"
    /\ UNCHANGED <<batch_frame, document, tender_data, found_pdfs, attempted, extracted_dir,
                   processed_count>>

\* process_pdf reaches get_or_generate_tender_id only with a text; a
\* document that raises does so before that call
consults_resolver_always(doc) == ~doc.raises

consults_resolver(doc) == doc.has_text /\ ~doc.raises

\* the document with the tender ID the resolver returns for it: the ID of
\* its text or file name, or else the ID generated for counter value c
resolved_document(doc, c) ==
    IF doc.tender_id = "" THEN [doc EXCEPT !.tender_id = format_tender_id(c)] ELSE doc

\* one iteration of the loop of run(): process_pdf and save_tender_output
\* inside try/except Exception
RunIteration ==
    /\ pc = "loop"
    /\ Len(attempted) < Len(all_pdfs)
    /\ LET iterated(i, doc, resolved) ==
               /\ attempted' = Append(attempted, all_pdfs[i])
               /\ document' = doc
               /\ IF consults_resolver(doc)
                  THEN IF doc.tender_id = ""
                       THEN /\ generate_effect
                            /\ last_call' = Call("get_or_generate", "generated",
                                                 resolved.tender_id)
                       ELSE /\ last_call' = Call("get_or_generate", "text", doc.tender_id)
                            /\ UNCHANGED <<file_exists, file_content, counter, generated>>
                  ELSE UNCHANGED <<file_exists, file_content, counter, generated, last_call>>
               /\ IF doc.raises
                  THEN \* process_pdf raises: the handler logs the error
                       /\ UNCHANGED <<tender_data, extracted_dir, processed_count>>
                  ELSE /\ tender_data' = process_pdf(resolved)
                       /\ IF process_pdf(resolved) = EmptyDict
                          THEN UNCHANGED <<extracted_dir, processed_count>>
                          ELSE IF write_fails(output_filename(process_pdf(resolved)))
                          THEN \* save_json_file raises: the handler logs the error
                               UNCHANGED <<extracted_dir, processed_count>>
                          ELSE /\ extracted_dir' =
                                      save_json_file(extracted_dir,
                                                     output_filename(process_pdf(resolved)),
                                                     process_pdf(resolved))
                               /\ processed_count' = processed_count + 1
               /\ pc' = position_after(doc.raises
                                       \/ (/\ process_pdf(resolved) # EmptyDict
                                           /\ write_fails(output_filename(process_pdf(resolved)))),
                                       i, Len(all_pdfs))
           document_at(i, doc) == iterated(i, doc, resolved_document(doc, counter + 1))
       IN  document_at(Len(attempted) + 1, DocumentAt(all_pdfs[Len(attempted) + 1]))
    /\ UNCHANGED <<text, extractor_vars, pdf_stem, has_path, detector, inst, cleaner_vars,
                   classifier_vars, info_vars, io_vars, found_pdfs, all_pdfs>>

NextBatch == RunCollect \/ RunIteration

SpecBatch == InitBatch /\ [][NextBatch]_vars

\* C18: an exception in the processing of one document does not keep the
\* loop from the documents after it: the documents attempted are at every
\* moment the first ones of the deduplicated list, each once and in order,
\* the loop goes on while a document is left, and all of them have been
\* attempted when run() is done.
C18_BatchIsolation ==
    /\ Len(attempted) <= Len(all_pdfs)
    /\ attempted = SubSeq(all_pdfs, 1, Len(attempted))
    /\ pc = "loop" => Len(attempted) < Len(all_pdfs)
    /\ pc = "done" => (attempted = all_pdfs /\ all_pdfs = unique_paths(found_pdfs, {}))
    /\ \A i, j \in 1..Len(all_pdfs) : all_pdfs[i] = all_pdfs[j] => i = j

C18_Witness ==
    /\ pc = "done"
    /\ Len(all_pdfs) = 3
    /\ DocumentAt(all_pdfs[1]).raises
    /\ attempted = all_pdfs
    /\ processed_count = 2


\* the positions of all_pdfs whose document resolves to the tender ID id
ResolvingTo(id) ==
    {i \in 1..Len(all_pdfs) :
        /\ DocumentAt(all_pdfs[i]).has_text
        /\ ~DocumentAt(all_pdfs[i]).raises
        /\ DocumentAt(all_pdfs[i]).tender_id = id}

\* the tender IDs found in the text or file name of a document of the batch
ResolvedIds == {id \in {d.tender_id : d \in BatchDocuments} \ {""} : ResolvingTo(id) # {}}

\* the stored record of id is the record of the last document resolving to id
LastRecordStored(id) ==
    /\ id \o ".json" \in DOMAIN extracted_dir
    /\ extracted_dir[id \o ".json"] =
           process_pdf(DocumentAt(all_pdfs[SetMax(ResolvingTo(id))]))

\* C19: after a batch, for every tender ID that several documents of the
\* batch resolve to, the record stored under the file name of that ID is
\* the record of the last such document processed.
C19_LastWriteWins ==
    pc = "done" =>
        \A id \in ResolvedIds : Cardinality(ResolvingTo(id)) >= 2 => LastRecordStored(id)

\* the same for the tender IDs without "/"
C19_PlainIdsLastWriteWins ==
    pc = "done" => \A id \in ResolvedIds : ~Contains(id, "/") => LastRecordStored(id)

\* two documents with one plain tender ID processed, the record of the
\* second stored
C19_Overwritten ==
    /\ pc = "done"
    /\ Cardinality(ResolvingTo("RFP-2025-0042")) = 2
    /\ LastRecordStored("RFP-2025-0042")
    /\ processed_count = 2
    /\ Cardinality(DOMAIN extracted_dir) = 1


(***************************************************************************)
(* Section Locator on documents about as long as the cap                   *)
(***************************************************************************)
\* n lines `line`, each ended by a newline
RECURSIVE LinesOf(_, _)
LinesOf(line, n) ==
    IF n = 0 THEN ""
    ELSE IF n % 2 = 1 THEN line \o "\n" \o LinesOf(line, n - 1)
    ELSE LET doubled(h) == h \o h IN doubled(LinesOf(line, n \div 2))

\* how far the line counts of the documents lie from the cap
CapMargin == 2

\* a line that is collected for its colon, a header line, and a line that is
\* passed over
RunLines == {"kV: 11", "Tech Spec", "drums"}
FirstLines == {"", "Tech Specs\n", "Scope\n"}
LastLines == {"Core: 3", "warranty", "Tech Specs", "end"}

\* an optional first line, a run of equal lines about as long as the cap,
\* and a last line
CapDocs ==
    {first \o LinesOf(line, n) \o last :
        first \in FirstLines, line \in RunLines, last \in LastLines,
        n \in (MaxSectionLines - CapMargin)..(MaxSectionLines + CapMargin)}

InitSection ==
    /\ text \in CapDocs
    /\ ExtractorIdle
    /\ DetectorIdle
    /\ InstancesIdle
    /\ PipelineIdle
    /\ pc = "call"

\* a call of _extract_tech_spec_section_only on the text
LocateSection ==
    /\ pc = "call"
    /\ section' = extract_tech_spec_section_only(text)
    /\ pc' = "done"
    /\ UNCHANGED <<text, product_specs, raw_specs, formatted_specs, count, detector_vars,
                   inst, pipeline_vars>>

NextSection == LocateSection

SpecSection == InitSection /\ [][NextSection]_vars

\* the number of lines of the returned section
CollectedCount == IF section = "" THEN 0 ELSE Len(split(section, "\n"))

\* C21: the number of lines collected into the section never exceeds 200,
\* whether header lines or other lines are collected.
C21_CapRespected == pc = "done" => CollectedCount <= MaxSectionLines

\* more than 200 lines other than headers collected
C21_OneOverCap ==
    /\ pc = "done"
    /\ CollectedCount = MaxSectionLines + 1
    /\ Cardinality(HeaderLines) = 1

\* header lines collected without any limit
C21_HeadersUncapped ==
    /\ pc = "done"
    /\ CollectedCount > MaxSectionLines + 1

\* the positions of the document's lines that make up the returned section
SectionPositions == section_indices(text)

PositionSet(idx) == {idx[k] : k \in 1..Len(idx)}

\* the document positions from the first to the last returned line
SectionSpan(idx) == IF idx = <<>> THEN {} ELSE idx[1]..idx[Len(idx)]

\* a line the loop keeps inside a section: a product-spec indicator, a
\* separator or a line of fewer than three characters, a table header row,
\* a colon, or an item category
table_row_words == <<"specification name", "allowed values", "bid requirement",
                     "item category", "product category">>

PassesInclusion(line) ==
    \/ HasIndicator(line)
    \/ Len(strip(line)) < 3
    \/ Contains(line, ":")
    \/ AnyIn(table_row_words, strip(lower(line)))

\* C22: the returned section is a contiguous run of the document's lines:
\* every document line lying between the first and the last returned line
\* is itself in the result.
C22_Contiguous ==
    pc = "done" =>
        LET spanned(idx) == SectionSpan(idx) \subseteq PositionSet(idx)
        IN  spanned(SectionPositions)

\* C22, amended: the returned section is the document's lines at increasing
\* positions, joined by newlines; of the document lines between the first
\* and the last returned line, exactly the header lines and the lines that
\* pass the inclusion test are in the result, the others are left out.
C22_FilteredRun ==
    pc = "done" =>
        LET lines == TextLines
            filtered(idx) ==
                /\ \A k \in 1..(Len(idx) - 1) : idx[k] < idx[k + 1]
                /\ section = join("\n", [k \in 1..Len(idx) |-> lines[idx[k]]])
                /\ \A j \in SectionSpan(idx) :
                       j \in PositionSet(idx)
                       <=> (IsHeader(lines[j]) \/ PassesInclusion(lines[j]))
        IN  filtered(SectionPositions)

\* a section whose first and last line have a left-out line between them
C22_Witness ==
    /\ pc = "done"
    /\ LET lines == TextLines
           gapped(idx) ==
               /\ Len(idx) >= 2
               /\ \E j \in SectionSpan(idx) :
                      /\ j \notin PositionSet(idx)
                      /\ ~IsHeader(lines[j])
                      /\ ~PassesInclusion(lines[j])
       IN  gapped(SectionPositions)

\* C23: no line that precedes the first header-matching line appears in the
\* returned section; a non-empty section starts with a header-matching
\* line, and the returned lines keep their document order.
C23_StartsAtFirstHeader ==
    pc = "done" =>
        LET lines == TextLines
            entered(idx) ==
                /\ HeaderLines = {} => (idx = <<>> /\ section = "")
                /\ HeaderLines # {} =>
                       /\ idx # <<>>
                       /\ idx[1] = SetMin(HeaderLines)
                       /\ section # ""
                       /\ IsHeader(split(section, "\n")[1])
                /\ \A k \in 1..(Len(idx) - 1) : idx[k] < idx[k + 1]
                /\ section = join("\n", [k \in 1..Len(idx) |-> lines[idx[k]]])
        IN  entered(SectionPositions)

\* a section that starts at a header line which is not the first line of
\* the document, the lines before it being lines a section would keep
C23_Witness ==
    /\ pc = "done"
    /\ HeaderLines # {}
    /\ SetMin(HeaderLines) > 1
    /\ \A j \in 1..(SetMin(HeaderLines) - 1) : PassesInclusion(TextLines[j])
    /\ Len(SectionPositions) >= 2
    /\ SectionPositions[1] = SetMin(HeaderLines)

(***************************************************************************)
(* The fixed "Total Quantity" record of the concatenated-table strategy    *)
(***************************************************************************)
\* the records the concatenated-table strategy returns for the section
ConcatenatedSpecs == extract_concatenated_table_specs(section)

\* the anchor phrase followed by a category word occurs in the section
TableAnchored == concat_table_start(section) # 0

TotalQuantityRecords(specs) ==
    {k \in 1..Len(specs) : startswith(specs[k], "Total Quantity:")}

C24_NothingWithoutAnchor ==
    /\ pc = "done"
    /\ section # ""
    /\ ~TableAnchored
    /\ ConcatenatedSpecs = <<>>

(***************************************************************************)
(* Specifications of linked documents (SpecOutput)                         *)
(***************************************************************************)
\* the main document's specs, when it has some, and the specs of the linked
\* documents numbered in K, in download order, separated by blank lines
MainThenLinked(K) ==
    LET linked == document.linked_tech_specs
        kept == [k \in 1..Cardinality(K) |->
                    linked[CHOOSE i \in K : Cardinality({j \in K : j < i}) = k - 1]]
    IN  join("\n\n", (IF document.main_tech_specs = "" THEN <<>>
                       ELSE <<document.main_tech_specs>>) \o kept)

AllLinked == 1..Len(document.linked_tech_specs)

\* the linked documents whose specs are not yet part of the text combined
\* from the main document and the linked documents before them
NewLinked ==
    CHOOSE K \in SUBSET AllLinked :
        \A i \in AllLinked :
            i \in K <=> ~Contains(MainThenLinked({j \in K : j < i}),
                                  document.linked_tech_specs[i])

\* the output carries exactly the specification text merged
CarriesSpecs(merged) ==
    IF merged = "" THEN "technical_specifications" \notin DOMAIN tender_data
    ELSE /\ "technical_specifications" \in DOMAIN tender_data
         /\ tender_data.technical_specifications = capped_specifications(merged)

\* C25: the merged specification text is the main document's specs first,
\* followed by each linked document's specs in download order; when the
\* main document yielded no specs the linked documents' specs replace it,
\* and when neither yields specs the result stays empty.
C25_MainThenEachLinked ==
    (pc = "done" /\ document.has_text /\ document.llm_info.technical_specs = "") =>
        CarriesSpecs(MainThenLinked(AllLinked))

\* C25, amended: when the main document yielded specs, the merged text is
\* the main document's specs followed, in download order, by the specs of
\* each linked document that are not already contained in the text merged
\* so far; when the main document yielded none, the merged text is the
\* specs of all linked documents in download order; when neither yields
\* specs the result stays empty.
C25_MainThenNewLinked ==
    (pc = "done" /\ document.has_text /\ document.llm_info.technical_specs = "") =>
        CarriesSpecs(MainThenLinked(IF document.main_tech_specs = "" THEN AllLinked
                                    ELSE NewLinked))

\* two linked documents: the first one's specs are those of the main
\* document and are left out, the second one's specs are appended
C25_Witness ==
    /\ pc = "done"
    /\ document.has_text
    /\ document.llm_info.technical_specs = ""
    /\ document.main_tech_specs # ""
    /\ Len(document.linked_tech_specs) = 2
    /\ document.linked_tech_specs[1] = document.main_tech_specs
    /\ NewLinked = {2}
    /\ tender_data.technical_specifications =
           document.main_tech_specs \o "\n\n" \o document.linked_tech_specs[2]

\* no specs in the main document: the specs of both linked documents, equal
\* ones included, make up the text
C25_Replaced ==
    /\ pc = "done"
    /\ document.has_text
    /\ document.llm_info.technical_specs = ""
    /\ document.main_tech_specs = ""
    /\ Len(document.linked_tech_specs) = 2
    /\ document.linked_tech_specs[1] = document.linked_tech_specs[2]
    /\ tender_data.technical_specifications =
           document.linked_tech_specs[1] \o "\n\n" \o document.linked_tech_specs[2]

(***************************************************************************)
(* Blank lines in clean_text (SpecClean)                                   *)
(***************************************************************************)
\* the code point of the alphabet that is neither whitespace nor a control
\* character
LetterCode == CHOOSE c \in CleanAlphabet : c \notin WsCodes \cup ControlCodes

\* the positions i < j of raw_text such that raw_text is a paragraph of
\* letters up to i, a paragraph of letters from j on, and between them
\* newlines and spaces that make up at least one blank line
ParagraphBreaks ==
    {b \in (1..Len(raw_text)) \X (1..Len(raw_text)) :
        /\ b[1] < b[2]
        /\ \A k \in 1..Len(raw_text) :
               IF k <= b[1] \/ k >= b[2] THEN raw_text[k] = LetterCode
               ELSE raw_text[k] \in {NewlineCode, SpaceCode}
        /\ Cardinality({k \in (b[1] + 1)..(b[2] - 1) : raw_text[k] = NewlineCode}) >= 2}

\* C26: clean_text turns every run of one or more blank lines between two
\* paragraphs into exactly one blank line: two paragraphs separated by blank
\* lines in the input are separated by exactly one blank line in the output.
C26_OneBlankLine ==
    pc # "call" =>
        \A b \in ParagraphBreaks :
            cleaned_texts[1] = SubSeq(raw_text, 1, b[1])
                               \o <<NewlineCode, NewlineCode>>
                               \o SubSeq(raw_text, b[2], Len(raw_text))

\* what the code does: no newline is left in the result, and the two
\* paragraphs are separated by a single space
C26_NoNewlineLeft ==
    pc # "call" =>
        /\ \A k \in 1..Len(cleaned_texts[1]) : cleaned_texts[1][k] # NewlineCode
        /\ \A b \in ParagraphBreaks :
               cleaned_texts[1] = SubSeq(raw_text, 1, b[1]) \o <<SpaceCode>>
                                  \o SubSeq(raw_text, b[2], Len(raw_text))

\* two paragraphs with two blank lines between them, joined by one space
C26_Joined ==
    /\ pc = "cleaned"
    /\ raw_text = <<LetterCode, NewlineCode, NewlineCode, NewlineCode, LetterCode>>
    /\ cleaned_texts[1] = <<LetterCode, SpaceCode, LetterCode>>

(***************************************************************************)
(* PDFExtractor.extract_text, and process_pdf up to extract_specs          *)
(* (pdf_engine/pdf_extractor.py, main.py)                                  *)
(***************************************************************************)
\* printable ASCII characters: code points 32 to 33, 35 to 91 and 97 to 122
PrintableLow == " !"
PrintableMid == "#$%&'()*+,-./0123456789:;<=>?@ABCDEFGHIJKLMNOPQRSTUVWXYZ["
PrintableHigh == "abcdefghijklmnopqrstuvwxyz"

\* ord(c)
OrdOf ==
    LET index(c, chars) == CHOOSE i \in 1..Len(chars) : At(chars, i) = c
    IN  [c \in CharsOf(PrintableLow \o PrintableMid \o PrintableHigh)
               \cup {"\t", "\n", "\f", "\r"} |->
            IF c = "\t" THEN 9
            ELSE IF c = "\n" THEN 10
            ELSE IF c = "\f" THEN 12
            ELSE IF c = "\r" THEN 13
            ELSE IF c \in CharsOf(PrintableLow) THEN 31 + index(c, PrintableLow)
            ELSE IF c \in CharsOf(PrintableMid) THEN 34 + index(c, PrintableMid)
            ELSE 96 + index(c, PrintableHigh)]

\* chr(n)
ChrOf == [n \in {OrdOf[c] : c \in DOMAIN OrdOf} |-> CHOOSE c \in DOMAIN OrdOf : OrdOf[c] = n]

\* a str as the sequence of its code points, and back
codes_of(s) == [i \in 1..Len(s) |-> OrdOf[At(s, i)]]

RECURSIVE str_of(_)
str_of(codes) ==
    IF Len(codes) = 0 THEN ""
    ELSE IF Len(codes) = 1 THEN ChrOf[codes[1]]
    ELSE LET h == Len(codes) \div 2
         IN  str_of(SubSeq(codes, 1, h)) \o str_of(SubSeq(codes, h + 1, Len(codes)))

\* config.PDF_EXTRACTION_METHODS
extraction_methods == <<"pypdf2", "pdfminer", "pdfplumber", "ocr">>

\* the minimum text threshold
MinTextLen == 50

\* the methods, in fallback order, whose text passes the threshold; an
\* output that is not ok stands for a method that raised
usable_methods(outputs) ==
    {k \in 1..Len(extraction_methods) :
        /\ outputs[k].ok
        /\ outputs[k].val # ""
        /\ Len(strip(outputs[k].val)) > MinTextLen}

\* extract_text that returns the first usable text as it is
extract_text_raw(outputs) ==
    LET first_of(usable) == IF usable = {} THEN "" ELSE outputs[SetMin(usable)].val
    IN  first_of(usable_methods(outputs))

\* PDFExtractor.extract_text for an existing file
extract_text(outputs) ==
    LET first_of(usable) ==
            IF usable = {} THEN ""
            ELSE str_of(clean_text(codes_of(outputs[SetMin(usable)].val)))
    IN  first_of(usable_methods(outputs))

\* the number of methods that fail before one returns the page text
MaxFailedMethods == 1

PageLines == {"Technical Specifications", "Voltage:\t11 kV", "payment terms", "Scope of supply"}

\* the texts of a page: three lines of the pool, a last line, and the
\* newline the extraction method puts after the page
PageTexts ==
    {a \o "\n" \o b \o "\n\n" \o c \o "\nConductor: Aluminium\n" :
        a \in PageLines, b \in PageLines, c \in PageLines}

\* what a method that fails gives: an exception, no text, too short a text
FailedOutputs == {NoMatch, Matched(""), Matched("Technical Specifications\nVoltage: 11 kV\n")}

MethodTexts ==
    {[k \in 1..Len(extraction_methods) |->
         IF k <= n THEN f ELSE IF k = n + 1 THEN Matched(d) ELSE NoMatch] :
        n \in 0..MaxFailedMethods, f \in FailedOutputs, d \in PageTexts}
    \cup {[k \in 1..Len(extraction_methods) |-> f] : f \in FailedOutputs}

InitPipeline ==
    /\ method_texts \in MethodTexts
    /\ text = ""
    /\ ExtractorIdle
    /\ DetectorIdle
    /\ InstancesIdle
    /\ CleanerIdle
    /\ ClassifierIdle
    /\ InfoIdle
    /\ RetryIdle
    /\ OrchestratorIdle
    /\ pc = "read"

\* process_pdf: text = self.pdf_extractor.extract_text(pdf_path), and the
\* return of an empty dictionary when there is no text
ExtractText ==
    /\ pc = "read"
    /\ LET extracted(t) ==
               /\ text' = t
               /\ pc' = IF t = "" THEN "empty" ELSE "call"
       IN  extracted(extract_text(method_texts))
    /\ UNCHANGED <<extractor_vars, detector_vars, inst, pipeline_vars>>

\* ExtractText, then extract_specs on the text
NextPipeline == ExtractText \/ extract_specs

SpecPipeline == InitPipeline /\ [][NextPipeline]_vars

\* the page text of the method whose text extract_text returned
PageText == extract_text_raw(method_texts)

IsCompactToken(t) ==
    \E prefix \in {"rfp", "rfq"} :
        LET whole(match) == match.ok /\ Len(match.val) = Len(t)
        IN  whole(CompactMatchAt(t, lower(t), 1, Compact(prefix)))

\* C28: for a text whose only identifier is a compact token such as
\* RFP-2025-002, extract_tender_id returns the whole token upper-cased with
\* its prefix, not just the part after the prefix.
C28_WholeCompactToken ==
    (pc = "done" /\ last_call.op = "extract" /\ IsCompactToken(text))
    => (last_call.source = "text" /\ last_call.id = upper(text))

\* what the code returns for the compact token: the part after the prefix
C28_PrefixDropped ==
    /\ pc = "done"
    /\ last_call.op = "extract"
    /\ text = "RFP-2025-002"
    /\ IsCompactToken(text)
    /\ last_call.id = "2025-002"

(***************************************************************************)
(* Documents without text in run() (SpecBatch)                             *)
(***************************************************************************)
\* the document the next iteration of the loop processes
NextDocument == DocumentAt(all_pdfs[Len(attempted) + 1])

\* C29: when extract_text returns the empty string for a document,
\* process_pdf returns an empty record before the Tender ID Resolver is
\* consulted: no ID is generated, the counter and the counter file are
\* unchanged; run() writes no output file for the document and goes on
\* with the next one.
C29_EmptyTextSkipped ==
    [][(pc = "loop" /\ Len(attempted) < Len(all_pdfs) /\ ~NextDocument.has_text) =>
           /\ tender_data' = EmptyDict
           /\ UNCHANGED <<last_call, counter, file_exists, file_content, generated>>
           /\ UNCHANGED <<extracted_dir, processed_count>>
           /\ attempted' = Append(attempted, all_pdfs[Len(attempted) + 1])
           /\ pc' = IF Len(attempted') < Len(all_pdfs) THEN "loop" ELSE "done"]_vars

\* a document without text was passed after a document whose ID was
\* generated and stored, and a third document is still to come
C29_Witness ==
    /\ pc = "loop"
    /\ Len(all_pdfs) = 3
    /\ Len(attempted) = 2
    /\ ~DocumentAt(attempted[2]).has_text
    /\ tender_data = EmptyDict
    /\ generated # <<>>
    /\ counter = TENDER_ID_COUNTER_START + 1
    /\ file_content = saved_counter(counter)
    /\ last_call.source = "generated"
    /\ DOMAIN extracted_dir = {last_call.id \o ".json"}
    /\ processed_count = 1

(***************************************************************************)
(* GmailReader._retry_with_backoff (gmail_engine/gmail_reader.py)          *)
(* An exception is its class, str(e) and, for an HttpError, the status of  *)
(* the response.  Every invocation of func returns or raises.              *)
(***************************************************************************)
\* except (HttpError, ConnectionError, OSError)
caught_types == {"HttpError", "ConnectionError", "OSError"}

retryable_words == <<"10054", "connection", "unable to find the server", "network">>
retryable_statuses == {429, 500, 502, 503, 504}

\* a test that has every caught error retried
is_retryable_always(e) == TRUE

\* is_retryable
is_retryable(e) ==
    \/ AnyIn(retryable_words, lower(e.text))
    \/ (e.type = "HttpError" /\ e.status \in retryable_statuses)

\* delay *= 2
next_delay(d) == d * 2

Returned(v) == [kind |-> "return", result |-> v, error |-> NoException]
Raised(e) == [kind |-> "raise", result |-> "", error |-> e]

\* the errors func raises here: retried ones ...
RetryableErrors == {
    [type |-> "ConnectionError", text |-> "Connection aborted", status |-> 0],
    [type |-> "HttpError", text |-> "HttpError 503 Service Unavailable", status |-> 503]}

\* ... and errors that are not retried: caught ones, and one of another
\* class whose text holds a retryable word
FatalErrors == {
    [type |-> "OSError", text |-> "disk full", status |-> 0],
    [type |-> "HttpError", text |-> "HttpError 404 Not Found", status |-> 404],
    [type |-> "ValueError", text |-> "network unreachable", status |-> 0]}

\* what an invocation of func does: it returns a value or raises
FuncOutcomes ==
    {[ok |-> TRUE, result |-> v, error |-> NoException] : v \in {"messages", "None"}}
    \cup {[ok |-> FALSE, result |-> "", error |-> e] : e \in RetryableErrors \cup FatalErrors}

MaxRetries == 3
InitialDelays == {0, 1, 3}

InitRetry ==
    /\ max_retries \in -1..MaxRetries
    /\ initial_delay \in InitialDelays
    /\ attempt = 0
    /\ delay = 0
    /\ last_exception = NoException
    /\ calls = <<>>
    /\ waits = <<>>
    /\ outcome = NotEnded
    /\ method_texts = <<>>
    /\ text = ""
    /\ ExtractorIdle
    /\ DetectorIdle
    /\ InstancesIdle
    /\ CleanerIdle
    /\ ClassifierIdle
    /\ InfoIdle
    /\ OrchestratorIdle
    /\ pc = "call"

retry_frame == <<text, extractor_vars, detector_vars, inst, cleaner_vars, classifier_vars,
                 info_vars, pdf_vars, orchestrator_vars, max_retries, initial_delay>>

\* the call: delay = initial_delay, last_exception = None
RetryEnter ==
    /\ pc = "call"
    /\ delay' = initial_delay
    /\ last_exception' = NoException
    /\ pc' = "try"
    /\ UNCHANGED <<retry_frame, attempt, calls, waits, outcome>>

\* one pass through the try statement of the loop: func is invoked, and its
\* exception, if any, is handled up to the call of time.sleep
RetryInvoke ==
    /\ pc = "try"
    /\ attempt <= max_retries
    /\ \E r \in FuncOutcomes :
           /\ calls' = Append(calls, r)
           /\ IF r.ok
              THEN /\ outcome' = Returned(r.result)
                   /\ pc' = "done"
                   /\ UNCHANGED last_exception
              ELSE IF r.error.type \in caught_types
              THEN /\ last_exception' = r.error
                   /\ IF ~is_retryable(r.error) \/ attempt = max_retries
                      THEN outcome' = Raised(r.error) /\ pc' = "done"
                      ELSE outcome' = outcome /\ pc' = "sleep"
              ELSE \* except Exception
                   /\ outcome' = Raised(r.error)
                   /\ pc' = "done"
                   /\ UNCHANGED last_exception
    /\ UNCHANGED <<retry_frame, attempt, delay, waits>>

\* time.sleep(delay), delay *= 2, and the next value of the loop variable
RetrySleep ==
    /\ pc = "sleep"
    /\ waits' = Append(waits, delay)
    /\ delay' = next_delay(delay)
    /\ attempt' = attempt + 1
    /\ pc' = "try"
    /\ UNCHANGED <<retry_frame, last_exception, calls, outcome>>

\* the loop has no value left: the statements after it
RetryExhausted ==
    /\ pc = "try"
    /\ attempt > max_retries
    /\ outcome' = IF last_exception # NoException THEN Raised(last_exception)
                  ELSE Returned("None")
    /\ pc' = "done"
    /\ UNCHANGED <<retry_frame, attempt, delay, last_exception, calls, waits>>

NextRetry == RetryEnter \/ RetryInvoke \/ RetrySleep \/ RetryExhausted

\* func and time.sleep return, so a step that can be taken is taken
SpecRetry == InitRetry /\ [][NextRetry]_vars /\ WF_vars(NextRetry)

RECURSIVE Pow2(_)
Pow2(n) == IF n = 0 THEN 1 ELSE 2 * Pow2(n - 1)

\* what holds of the invocations and the waits at every moment of a call
RetryBounded ==
    /\ Len(calls) <= (IF max_retries < 0 THEN 0 ELSE max_retries + 1)
    /\ \A k \in 1..(Len(calls) - 1) : ~calls[k].ok /\ calls[k].error \in RetryableErrors
    /\ \A k \in 1..Len(waits) : waits[k] = initial_delay * Pow2(k - 1)
    /\ Len(waits) <= Len(calls)
    /\ pc = "sleep" => (~calls[Len(calls)].ok /\ calls[Len(calls)].error \in RetryableErrors)

\* how a call ends
RetryEnded ==
    pc = "done" =>
        /\ Len(waits) = (IF calls = <<>> THEN 0 ELSE Len(calls) - 1)
        /\ IF calls = <<>> THEN outcome = Returned("None")
           ELSE LET ended(last) ==
                        IF last.ok THEN outcome = Returned(last.result)
                        ELSE /\ outcome = Raised(last.error)
                             /\ \/ last.error \in FatalErrors
                                \/ Len(calls) = max_retries + 1
                IN  ended(calls[Len(calls)])
        /\ \A k \in 1..Len(calls) :
               (calls[k].ok \/ calls[k].error \in FatalErrors) => k = Len(calls)

C30_LastErrorRaised ==
    /\ pc = "done"
    /\ max_retries = 2
    /\ Len(calls) = 3
    /\ Len(waits) = 2
    /\ outcome.kind = "raise"
    /\ outcome.error \in RetryableErrors

=============================================================================
